---- MODULE Spec2Model ----
(***************************************************************************)
(* A model of the Kong ingress controller (controller/controller.go):     *)
(* the informer's event handlers (ingressChanged, ingressUpdated,         *)
(* ingressDeleted), the reconciler (reconcileAPI), the orphan reaper      *)
(* (apiReaper, reapOrphanedApis), the certificate reconciler              *)
(* (reconcileCertificate), and the pure helpers that derive names         *)
(* and upstream URLs.  The gateway (Kong admin API) and the cluster's     *)
(* ingress store are the environment.  Every gateway call is one step,    *)
(* so that the dispatcher, the reaper and the environment interleave at   *)
(* the granularity of individual HTTP calls.                              *)
(*                                                                         *)
(* Specifications: Spec, the whole controller; FairSpec, the same under    *)
(* fair scheduling; SpecD, the informer's goroutine with its calls logged; *)
(* SpecR, the reaper with its calls logged; FairR, the reaper scheduled;   *)
(* SpecP, reconcileAPI from any record; SpecG, reconcileAPI under another  *)
(* writer; SpecDel, deleteKongAPI twice in a row; SpecO, both goroutines   *)
(* logged across gateway outages; SpecE, ingresses of every class          *)
(* annotation; SpecN, ingresses whose names may collide; SpecI, the same   *)
(* ingress delivered twice; FairRun, Run from its start to its return;     *)
(* SpecQ, reconcileAPI from records without stripURI too; FairReap, the    *)
(* reaper up to its return; SpecC, two reconcileAPI calls at once; SpecU,  *)
(* an update that drops a name; SpecT, reconcileCertificate; SpecX, the    *)
(* reaper while an ingress is created; SpecS, ingresses that share a name; *)
(* SpecK, the handler and the reaper deleting the same API.                *)
(***************************************************************************)
EXTENDS Integers, Sequences, FiniteSets, TLC

VARIABLES
    cluster,   \* the ingresses the cluster holds (the ingress store)
    changes,   \* how many times the cluster's ingress set was changed
    queue,     \* watch events the informer has not delivered yet
    kong,      \* the gateway's APIs: a function from the names it holds to records
    kongUp,    \* whether the gateway answers (TRUE) or fails every call
    ctx,       \* the root context: "live" or "cancelled"
    dpc,       \* the informer goroutine's position in the running handler
    dev,       \* the event the handler runs for
    dpairs,    \* the (rule, path) pairs the handler has still to process
    dapi,      \* the record the reconcile's GET returned
    dlog,      \* gateway calls the running handler has issued
    rpc,       \* the reaper goroutine's position
    rapis,     \* names in the cycle's gateway list (kongApis.Data)
    ringmap,   \* the cycle's expected names (ingMap)
    rtodo,     \* names of the gateway list the cycle has still to look at
    rname,     \* the API deleteKongAPI is deleting for the reaper
    rlog,      \* gateway and cluster calls the running cycle has issued
    rerr,      \* the error reapOrphanedApis returned to apiReaper
    rdirty,    \* history: the cluster changed or an API was created mid-cycle
    dres,      \* what reconcileAPI / deleteKongAPI returned, pair by pair
    run,       \* Run's position: "waiting" on ctx.Done(), or "returned"
    ppc,       \* a second, concurrent reconcileAPI call: its position
    papi,      \* the record that call's GET returned
    plog,      \* gateway calls that call has issued
    certs,     \* the gateway's certificates: a function from SNI hosts to records
    secret,    \* the cluster's secret of the name SecretName, or NoSecret
    cpc,       \* the handler's position in reconcileCertificate
    chosts,    \* the hosts of the TLS entries it has still to process
    ccert,     \* the certificate its GET returned
    clog,      \* certificate calls the running handler has issued
    tracing    \* whether the call logs (dlog, dres, rlog) are recorded

envVars  == <<cluster, changes, queue, tracing>>
gwVars   == <<kong, kongUp>>
dispVars == <<dpc, dev, dpairs, dapi, dlog, dres>>
reapVars == <<rpc, rapis, ringmap, rtodo, rname, rlog, rerr, rdirty>>
peerVars == <<ppc, papi, plog>>
certVars == <<certs, secret, cpc, chosts, ccert, clog>>
sideVars == <<peerVars, certVars>>
vars     == <<cluster, changes, queue, kong, kongUp, ctx, run, tracing,
              dpc, dev, dpairs, dapi, dlog, dres,
              rpc, rapis, ringmap, rtodo, rname, rlog, rerr, rdirty,
              ppc, papi, plog,
              certs, secret, cpc, chosts, ccert, clog>>

\* Go's nil, for a pointer to a struct, a slice and a pointer to a bool
Nil == [nil |-> TRUE]
NilSlice == [nil |-> TRUE, elems |-> <<>>]
Slice(s) == [nil |-> FALSE, elems |-> s]
NilBool == [nil |-> TRUE, val |-> FALSE]
BoolPtr(b) == [nil |-> FALSE, val |-> b]
\* no string: the empty name, the absent error
None == ""
\* the secret does not exist
NoSecret == [missing |-> TRUE]

----------------------------------------------------------------------------
(* Bounds of the model. *)

\* the cluster's ingress set is changed at most this many times
MaxChanges == 1

----------------------------------------------------------------------------
(* Strings, numbers and their renderings. *)

\* []byte(s) for the path strings of the model
ByteString(s) ==
    CASE s = ""   -> <<>>
      [] s = "/"  -> <<47>>
      [] s = "/x" -> <<47, 120>>
      [] s = "/y" -> <<47, 121>>
      [] s = "/aca" -> <<47, 97, 99, 97>>
      [] s = "/bab" -> <<47, 98, 97, 98>>

HexDigit(d) ==
    CASE d = 0 -> "0" [] d = 1 -> "1" [] d = 2 -> "2" [] d = 3 -> "3"
      [] d = 4 -> "4" [] d = 5 -> "5" [] d = 6 -> "6" [] d = 7 -> "7"
      [] d = 8 -> "8" [] d = 9 -> "9" [] d = 10 -> "a" [] d = 11 -> "b"
      [] d = 12 -> "c" [] d = 13 -> "d" [] d = 14 -> "e" [] d = 15 -> "f"

\* strconv.FormatUint(n, base) for base <= 16: no sign, no leading zeros
RECURSIVE FormatUint(_, _)
FormatUint(n, base) ==
    IF n < base THEN HexDigit(n)
    ELSE FormatUint(n \div base, base) \o HexDigit(n % base)

AdlerMod == 65521
AdlerShift == 65536

\* adler32.Checksum: a starts at 1, b at 0; each byte adds into a, a into b
RECURSIVE AdlerFold(_, _, _)
AdlerFold(bytes, a, b) ==
    IF bytes = <<>> THEN <<a, b>>
    ELSE LET a2 == (a + Head(bytes)) % AdlerMod
             b2 == (b + a2) % AdlerMod
         IN  AdlerFold(Tail(bytes), a2, b2)

Adler32(bytes) ==
    LET ab == AdlerFold(bytes, 1, 0) IN ab[2] * AdlerShift + ab[1]

hashString(input) == FormatUint(Adler32(ByteString(input)), 16)

getQualifiedAPIName(host, path, namespace) ==
    host \o "~" \o hashString(path) \o "~" \o namespace

\* intstr.IntOrString.String(): the string itself, or the number in decimal
PortString(port) ==
    IF port.type = "string" THEN port.strVal ELSE FormatUint(port.intVal, 10)

getUpstreamURL(ingressPath, namespace) ==
    "http://" \o ingressPath.backend.serviceName \o "." \o namespace
              \o ":" \o PortString(ingressPath.backend.servicePort)

----------------------------------------------------------------------------
(* Ingresses. *)

kongIngressControllerClass == "kong"

\* the ingress-class annotation: a value, or NoAnnotation when the key is absent
NoAnnotation == "<absent>"

\* the test on the value alone: an empty annotation counts as an absent one
ingressIsFairGame_EmptyIsAbsent(ingress) ==
    \/ ingress.class = kongIngressControllerClass
    \/ ingress.class \in {NoAnnotation, ""}

\* val, ok := Annotations[class]; ok && val == "kong" || !ok
ingressIsFairGame(ingress) ==
    \/ ingress.class # NoAnnotation /\ ingress.class = kongIngressControllerClass
    \/ ingress.class = NoAnnotation

\* validation that rejects nothing
validateIngressSupported_Nothing(ingress) == TRUE

\* TRUE when the ingress is supported (validateIngressSupported returns nil)
validateIngressSupported(ingress) == ~ingress.backend

\* the simple form's validation (TRUE when it returns nil): no default
\* backend, one rule, one path, and that path the root
validateIngressSupportedSimple(ingress) ==
    /\ ~ingress.backend
    /\ Len(ingress.rules) = 1
    /\ Len(ingress.rules[1].paths) = 1 /\ ingress.rules[1].paths[1].path = "/"

\* the simple form's name of an ingress
getQualifiedName(ingress) == ingress.name \o "." \o ingress.namespace

\* the names the simple form's ingressChanged reconciles: none when the
\* validation fails, else the ingress's one name
ingressChangedSimple(ingress) ==
    IF ~validateIngressSupportedSimple(ingress) THEN <<>>
    ELSE <<getQualifiedName(ingress)>>

\* the (rule, path) pairs of an ingress, in the order of the nested range loops
RECURSIVE PairsOfRules(_)
PairsOfRules(rules) ==
    IF rules = <<>> THEN <<>>
    ELSE [i \in 1..Len(Head(rules).paths) |->
              [rule |-> Head(rules), path |-> Head(rules).paths[i]]]
         \o PairsOfRules(Tail(rules))

Pairs(ingress) == PairsOfRules(ingress.rules)

PairName(pair, namespace) ==
    getQualifiedAPIName(pair.rule.host, pair.path.path, namespace)

PairNames(ingress) ==
    {PairName(Pairs(ingress)[i], ingress.namespace) : i \in 1..Len(Pairs(ingress))}

\* the request without StripURI: the pointer stays nil
apiRequestFromIngress_NoStripURI(ingressRule, ingressPath, namespace) ==
    [upstreamURL  |-> getUpstreamURL(ingressPath, namespace),
     name         |-> getQualifiedAPIName(ingressRule.host, ingressPath.path, namespace),
     hosts        |-> ingressRule.host,
     uris         |-> ingressPath.path,
     preserveHost |-> TRUE,
     stripURI     |-> NilBool]

\* the request with the upstream of the rule's first path, whatever the path
apiRequestFromIngress_RuleBackend(ingressRule, ingressPath, namespace) ==
    [upstreamURL  |-> getUpstreamURL(ingressRule.paths[1], namespace),
     name         |-> getQualifiedAPIName(ingressRule.host, ingressPath.path, namespace),
     hosts        |-> ingressRule.host,
     uris         |-> ingressPath.path,
     preserveHost |-> TRUE,
     stripURI     |-> BoolPtr(FALSE)]

apiRequestFromIngress(ingressRule, ingressPath, namespace) ==
    [upstreamURL  |-> getUpstreamURL(ingressPath, namespace),
     name         |-> getQualifiedAPIName(ingressRule.host, ingressPath.path, namespace),
     hosts        |-> ingressRule.host,
     uris         |-> ingressPath.path,
     preserveHost |-> TRUE,
     stripURI     |-> BoolPtr(FALSE)]

----------------------------------------------------------------------------
(* The ingresses of the model. *)

IntPort(n) == [type |-> "int", intVal |-> n, strVal |-> None]
NamedPort(s) == [type |-> "string", intVal |-> 0, strVal |-> s]
Backend(service, port) == [serviceName |-> service, servicePort |-> port]
Path(path, backend) == [path |-> path, backend |-> backend]
Rule(host, paths) == [host |-> host, paths |-> paths]
\* Spec.TLS is a list of entries; nil is the list without entries
Ingress(name, class, hasBackend, rules) ==
    [name |-> name, namespace |-> "ns", class |-> class,
     backend |-> hasBackend, rules |-> rules, tls |-> <<>>]
TLS(hosts, secretName) == [hosts |-> hosts, secretName |-> secretName]

\* one rule, two paths whose backends differ; no class annotation
WebA == Ingress("web", NoAnnotation, FALSE,
            <<Rule("a", <<Path("/", Backend("svc1", IntPort(80))),
                          Path("/x", Backend("svc2", NamedPort("http")))>>)>>)
\* the same ingress after an update: the backend of "/" changed, "/x" is gone
WebB == Ingress("web", "kong", FALSE,
            <<Rule("a", <<Path("/", Backend("svc2", IntPort(8080)))>>)>>)
\* an ingress of another controller's class
Foreign == Ingress("foreign", "nginx", FALSE,
            <<Rule("a", <<Path("/x", Backend("svc1", IntPort(80)))>>)>>)
\* a default backend together with a rule: fair game, but not supported
Single == Ingress("single", "kong", TRUE,
            <<Rule("a", <<Path("/x", Backend("svc1", IntPort(80)))>>)>>)

\* two rules for the same host and path: both pairs derive the same name
Twice == Ingress("twice", "kong", FALSE,
            <<Rule("a", <<Path("/", Backend("svc1", IntPort(80)))>>),
              Rule("a", <<Path("/", Backend("svc1", IntPort(80)))>>)>>)

\* the name of the secret the cluster may hold
SecretName == "s"

\* WebB with one TLS entry of two hosts
SecureB == [WebB EXCEPT !.tls = <<TLS(<<"a", "b">>, SecretName)>>]
\* WebA, of two pairs, with two TLS entries of one host each
SecureA == [WebA EXCEPT !.tls = <<TLS(<<"a">>, SecretName),
                                  TLS(<<"b">>, SecretName)>>]

Ingresses == {WebA, SecureB, Foreign, Single, Twice}

\* the cluster holds at most one ingress per (namespace, name)
SameKey(i, j) == i.name = j.name /\ i.namespace = j.namespace
ClusterOK(c) == \A i, j \in c : SameKey(i, j) => i = j
Names == UNION {PairNames(i) : i \in Ingresses}

----------------------------------------------------------------------------
(* The gateway: Kong's admin API for the /apis resource. *)

StatusNotFound == 404

KongId(name) == "id:" \o name

\* the record Kong stores for POST /apis with this body
CreatedApi(body) ==
    [id           |-> KongId(body.name),
     name         |-> body.name,
     upstreamURL  |-> body.upstreamURL,
     hosts        |-> Slice(<<body.hosts>>),
     uris         |-> Slice(<<body.uris>>),
     preserveHost |-> body.preserveHost,
     stripURI     |-> body.stripURI]

\* the record after PATCH /apis/{id} with this body: only the body's fields change
PatchedApi(api, body) ==
    [api EXCEPT
       !.upstreamURL  = IF "upstreamURL" \in DOMAIN body THEN body.upstreamURL ELSE @,
       !.hosts        = IF "hosts" \in DOMAIN body THEN Slice(<<body.hosts>>) ELSE @,
       !.uris         = IF "uris" \in DOMAIN body THEN Slice(<<body.uris>>) ELSE @,
       !.preserveHost = IF "preserveHost" \in DOMAIN body THEN body.preserveHost ELSE @,
       !.stripURI     = IF "stripURI" \in DOMAIN body THEN body.stripURI ELSE @]

\* what a call gets while the gateway is unavailable: a 5xx, or no response
Unavailable(k) ==
    {[hasResp |-> TRUE,  status |-> 500, err |-> TRUE, api |-> Nil, kong |-> k],
     [hasResp |-> FALSE, status |-> 0,   err |-> TRUE, api |-> Nil, kong |-> k]}

Answer(status, api, k) ==
    [hasResp |-> TRUE, status |-> status, err |-> status >= 300, api |-> api, kong |-> k]

Without(k, name) == [n \in DOMAIN k \ {name} |-> k[n]]

\* GET /apis/{name}
KongGet(name) ==
    IF ~kongUp THEN Unavailable(kong)
    ELSE IF name \in DOMAIN kong THEN {Answer(200, kong[name], kong)}
    ELSE {Answer(StatusNotFound, Nil, kong)}

\* POST /apis: names are unique
KongPost(body) ==
    IF ~kongUp THEN Unavailable(kong)
    ELSE IF body.name \in DOMAIN kong THEN {Answer(409, Nil, kong)}
    ELSE {Answer(201, CreatedApi(body), kong @@ (body.name :> CreatedApi(body)))}

\* PATCH /apis/{id}
KongPatch(body) ==
    IF ~kongUp THEN Unavailable(kong)
    ELSE IF \E n \in DOMAIN kong : kong[n].id = body.id
         THEN LET n == CHOOSE n \in DOMAIN kong : kong[n].id = body.id
              IN  {Answer(200, PatchedApi(kong[n], body),
                          [kong EXCEPT ![n] = PatchedApi(kong[n], body)])}
         ELSE {Answer(StatusNotFound, Nil, kong)}

\* DELETE /apis/{name}
KongDelete(name) ==
    IF ~kongUp THEN Unavailable(kong)
    ELSE IF name \in DOMAIN kong THEN {Answer(204, Nil, Without(kong, name))}
    ELSE {Answer(StatusNotFound, Nil, kong)}

\* GET /apis: the complete list
KongGetAll ==
    IF ~kongUp THEN Unavailable(kong) ELSE {Answer(200, Nil, kong)}

\* the call logs are history: they are kept only while tracing
Log(log, entry) == IF tracing THEN Append(log, entry) ELSE log

\* one entry of a call log: the call, what came back, and for a handler the
\* index of the (rule, path) pair it was issued for
Call(k, op, path, body, r) ==
    [pair |-> k, op |-> op, path |-> path, body |-> body, reply |-> r.api,
     result |-> IF ~r.err THEN "ok"
                ELSE IF r.hasResp /\ r.status = StatusNotFound THEN "404"
                ELSE "error"]

\* the cluster's list call in the reaper's log
ListCall(result) ==
    [pair |-> 0, op |-> "LIST", path |-> "ingresses", body |-> Nil,
     reply |-> Nil, result |-> result]

----------------------------------------------------------------------------
(* reconcileAPI: the decisions it takes on the record its GET returned. *)

\* the test without "resp == nil ||": resp.StatusCode is read on a nil resp
GetOutcome_NoNilTest(r) ==
    IF ~r.hasResp THEN "panic"
    ELSE IF r.err /\ r.status # StatusNotFound THEN "error"
    ELSE IF r.status = StatusNotFound THEN "post"
    ELSE "compare"

\* any error of the GET taken for not-found
GetOutcome_ErrorCreates(r) ==
    IF r.err THEN "post" ELSE "compare"

\* what reconcileAPI does with the GET's result: return the error unless it
\* is a 404 response; then read resp.StatusCode (a nil resp would panic) and
\* either create the API or compare the record
GetOutcome(r) ==
    IF r.err /\ (~r.hasResp \/ r.status # StatusNotFound) THEN "error"
    ELSE IF ~r.hasResp THEN "panic"
    ELSE IF r.status = StatusNotFound THEN "post"
    ELSE "compare"

UpstreamURLDrift(api, pair, namespace) ==
    api.upstreamURL # getUpstreamURL(pair.path, namespace)

\* the hosts comparison that looks at the first element only
HostsDrift_FirstOnly(api, pair) ==
    Len(api.hosts.elems) = 0 \/ api.hosts.elems[1] # pair.rule.host

HostsDrift(api, pair) ==
    Len(api.hosts.elems) # 1 \/ api.hosts.elems[1] # pair.rule.host

PreserveHostDrift(api) == api.preserveHost # TRUE

\* *(api.StripURI) != false, for a pointer that is not nil
StripURIDrift(api) == api.stripURI.val # FALSE

\* the uris comparison that only tests for nil
UrisDrift_NilOnly(api, pair) == api.uris.nil

UrisDrift(api, pair) ==
    api.uris.nil \/ Len(api.uris.elems) = 0 \/ api.uris.elems[1] # pair.path.path

\* the order in which reconcileAPI compares, and patches, the fields
Fields == <<"upstreamURL", "hosts", "preserveHost", "stripURI", "uris">>

Drift(field, api, pair, namespace) ==
    CASE field = "upstreamURL"  -> UpstreamURLDrift(api, pair, namespace)
      [] field = "hosts"        -> HostsDrift(api, pair)
      [] field = "preserveHost" -> PreserveHostDrift(api)
      [] field = "stripURI"     -> StripURIDrift(api)
      [] field = "uris"         -> UrisDrift(api, pair)

\* the kong.ApiRequest of the PATCH for one field: the id and that field
PatchBody(field, api, pair, namespace) ==
    CASE field = "upstreamURL" ->
            [id |-> api.id, upstreamURL |-> getUpstreamURL(pair.path, namespace)]
      [] field = "hosts" ->
            [id |-> api.id, hosts |-> pair.rule.host]
      [] field = "preserveHost" ->
            [id |-> api.id, preserveHost |-> TRUE]
      [] field = "stripURI" ->
            [id |-> api.id, stripURI |-> BoolPtr(FALSE)]
      [] field = "uris" ->
            [id |-> api.id, uris |-> pair.path.path]

\* where reconcileAPI goes from the k-th comparison on: the next field to
\* patch, "panic" on the dereference of a nil StripURI, "return" after the last
RECURSIVE NextPatch(_, _, _, _)
NextPatch(api, pair, namespace, k) ==
    IF k > Len(Fields) THEN "return"
    ELSE IF Fields[k] = "stripURI" /\ api.stripURI.nil THEN "panic"
    ELSE IF Drift(Fields[k], api, pair, namespace) THEN Fields[k]
    ELSE NextPatch(api, pair, namespace, k + 1)

FieldIndex(field) == CHOOSE k \in 1..Len(Fields) : Fields[k] = field

----------------------------------------------------------------------------
(* The event handlers. *)

\* the pairs ingressChanged reconciles: none when it returns early
ingressChanged(ingress) ==
    IF ~ingressIsFairGame(ingress) THEN <<>>
    ELSE IF ~validateIngressSupported(ingress) THEN <<>>
    ELSE Pairs(ingress)

\* the update handler working on the object as it was before the update
ingressUpdated_Previous(previousObj, newObj) == ingressChanged(previousObj)

\* ingressUpdated hands the new object to ingressChanged
ingressUpdated(previousObj, newObj) == ingressChanged(newObj)

\* the delete handler without the ingressIsFairGame test
ingressDeleted_Unfiltered(ingress) == Pairs(ingress)

\* the pairs ingressDeleted deletes the APIs of
ingressDeleted(ingress) ==
    IF ~ingressIsFairGame(ingress) THEN <<>> ELSE Pairs(ingress)

HandlerPairs(ev) ==
    CASE ev.type = "add"    -> ingressChanged(ev.obj)
      [] ev.type = "update" -> ingressUpdated(ev.old, ev.obj)
      [] ev.type = "delete" -> ingressDeleted(ev.obj)

FirstStep(ev) == IF ev.type = "delete" THEN "delGet" ELSE "get"

AddEvent(i) == [type |-> "add", old |-> Nil, obj |-> i]
UpdateEvent(i, j) == [type |-> "update", old |-> i, obj |-> j]
DeleteEvent(i) == [type |-> "delete", old |-> Nil, obj |-> i]

\* the index, in the handler's iteration, of the pair at hand
PairIndex == Len(HandlerPairs(dev)) - Len(dpairs) + 1

\* the process is alive: no goroutine has panicked
Alive == dpc # "panic" /\ rpc # "panic" /\ ppc # "panic"

\* the reaper's cycle has begun and the next one has not
InCycle == rpc \in {"listIngresses", "delGet", "delDelete", "sleep"}

\* the hosts reconcileCertificate goes through for one TLS entry, each with
\* the entry's secret name
HostsOf(ingressTLS) ==
    [k \in 1..Len(ingressTLS.hosts) |->
        [host |-> ingressTLS.hosts[k], secretName |-> ingressTLS.secretName]]

\* the hosts ingressChanged's loop over Spec.TLS goes through, entry by
\* entry, in one turn of its loop over the pairs
RECURSIVE CertSteps(_)
CertSteps(tls) ==
    IF tls = <<>> THEN <<>> ELSE HostsOf(Head(tls)) \o CertSteps(Tail(tls))

\* the TLS entries the running handler reconciles after each reconcileAPI:
\* ingressDeleted has none
HandlerTLS(ev) == IF ev.type = "delete" THEN <<>> ELSE ev.obj.tls

\* the informer calls the handler for an event
Begin(ev) ==
    /\ dev' = ev
    /\ dpairs' = HandlerPairs(ev)
    /\ dpc' = IF HandlerPairs(ev) = <<>> THEN "done" ELSE FirstStep(ev)
    /\ dapi' = Nil
    /\ dlog' = <<>>
    /\ dres' = <<>>
    /\ clog' = <<>>

\* a watch event is delivered
DispatchEvent ==
    /\ Alive /\ ctx = "live" /\ dpc = "idle"
    /\ queue # <<>>
    /\ Begin(Head(queue))
    /\ queue' = Tail(queue)
    /\ UNCHANGED <<cluster, changes, tracing, gwVars, ctx, run, peerVars,
                   certs, secret, cpc, chosts, ccert, reapVars>>

\* the periodic resync (and the initial list) delivers an ingress of the store
DispatchResync(i) ==
    /\ Alive /\ ctx = "live" /\ dpc = "idle"
    /\ i \in cluster
    /\ Begin(UpdateEvent(i, i))
    /\ UNCHANGED <<envVars, gwVars, ctx, run, peerVars,
                   certs, secret, cpc, chosts, ccert, reapVars>>

\* the handler's loop over the pairs goes on to the next pair, or is over
NextPair ==
    /\ dpairs' = Tail(dpairs)
    /\ dpc' = IF Len(dpairs) > 1 THEN FirstStep(dev) ELSE "done"

\* the handler's loop left on the first error
Returned_StopOnError(result) ==
    /\ dres' = Log(dres, result)
    /\ dapi' = Nil
    /\ IF result = "error"
       THEN dpairs' = <<>> /\ dpc' = "done" /\ UNCHANGED <<cpc, chosts>>
       ELSE IF CertSteps(HandlerTLS(dev)) = <<>>
       THEN NextPair /\ UNCHANGED <<cpc, chosts>>
       ELSE /\ dpc' = "tls"
            /\ cpc' = "secret"
            /\ chosts' = CertSteps(HandlerTLS(dev))
            /\ UNCHANGED dpairs

\* reconcileAPI or deleteKongAPI returned for the pair at hand: its error is
\* logged, and ingressChanged goes on to reconcileCertificate for every TLS
\* entry of the ingress before it takes the next pair
Returned(result) ==
    /\ dres' = Log(dres, result)
    /\ dapi' = Nil
    /\ IF CertSteps(HandlerTLS(dev)) = <<>>
       THEN NextPair /\ UNCHANGED <<cpc, chosts>>
       ELSE /\ dpc' = "tls"
            /\ cpc' = "secret"
            /\ chosts' = CertSteps(HandlerTLS(dev))
            /\ UNCHANGED dpairs

\* reconcileAPI goes on to `step` with the record of its GET
Goto(step, api) ==
    IF step = "return" THEN Returned("ok")
    ELSE /\ dpc' = step
         /\ dapi' = api
         /\ UNCHANGED <<dpairs, dres, cpc, chosts>>

\* reconcileAPI: GET /apis/{name}
ReconcileGet ==
    /\ Alive /\ dpc = "get"
    /\ LET pair == Head(dpairs)
           ns   == dev.obj.namespace
           name == PairName(pair, ns)
       IN \E r \in KongGet(name) :
            /\ dlog' = Log(dlog, Call(PairIndex, "GET", name, Nil, r))
            /\ IF GetOutcome(r) = "error" THEN Returned("error")
               ELSE IF GetOutcome(r) = "compare"
                    THEN Goto(NextPatch(r.api, pair, ns, 1), r.api)
               ELSE Goto(GetOutcome(r), Nil)
    /\ UNCHANGED <<envVars, gwVars, ctx, run, peerVars, certs, secret, ccert,
                   clog, dev, reapVars>>

\* reconcileAPI: POST /apis with the record built from the pair
ReconcilePost ==
    /\ Alive /\ dpc = "post"
    /\ LET pair == Head(dpairs)
           body == apiRequestFromIngress(pair.rule, pair.path, dev.obj.namespace)
       IN \E r \in KongPost(body) :
            /\ dlog' = Log(dlog, Call(PairIndex, "POST", "", body, r))
            /\ kong' = r.kong
            /\ rdirty' = (rdirty \/ (InCycle /\ ~r.err))
            /\ Returned(IF r.err THEN "error" ELSE "ok")
    /\ UNCHANGED <<envVars, kongUp, ctx, run, peerVars, certs, secret, ccert,
                   clog, dev, rpc, rapis, ringmap, rtodo, rname, rlog, rerr>>

\* the error of a PATCH logged and not returned
PatchOutcome_Ignored(r) == "next"

\* reconcileAPI after a PATCH: return the error, or go on to the next field
PatchOutcome(r) == IF r.err THEN "return" ELSE "next"

\* the comparisons going on with the record the PATCH returned
ComparedRecord_Reply(api, r) == IF r.api = Nil THEN api ELSE r.api

\* the record the remaining comparisons read: the one of the GET; the record
\* a PATCH returns is discarded
ComparedRecord(api, r) == api

\* reconcileAPI: PATCH of the field at hand, then on to the next drifted field
ReconcilePatch ==
    /\ Alive /\ dpc \in {Fields[k] : k \in 1..Len(Fields)}
    /\ LET pair == Head(dpairs)
           ns   == dev.obj.namespace
           body == PatchBody(dpc, dapi, pair, ns)
       IN \E r \in KongPatch(body) :
            /\ dlog' = Log(dlog, Call(PairIndex, "PATCH", dapi.id, body, r))
            /\ kong' = r.kong
            /\ IF PatchOutcome(r) = "return" THEN Returned("error")
               ELSE Goto(NextPatch(ComparedRecord(dapi, r), pair, ns,
                                   FieldIndex(dpc) + 1),
                         ComparedRecord(dapi, r))
    /\ UNCHANGED <<envVars, kongUp, ctx, run, peerVars, certs, secret, ccert,
                   clog, dev, reapVars>>

\* deleteKongAPI going on to the DELETE whatever the GET returned
DeleteAfterGet_Always(r) == "delete"

\* deleteKongAPI after its GET: return the error, or go on to the DELETE
DeleteAfterGet(r) == IF r.err THEN "return" ELSE "delete"

\* a DELETE answered not-found taken for a success
DeleteOutcome_NotFoundIsSuccess(r) ==
    IF r.err /\ ~(r.hasResp /\ r.status = StatusNotFound) THEN "error" ELSE "ok"

\* what deleteKongAPI returns after its DELETE: the error, or nil
DeleteOutcome(r) == IF r.err THEN "error" ELSE "ok"

\* deleteKongAPI for the delete handler: GET /apis/{name}
DeletedGet ==
    /\ Alive /\ dpc = "delGet"
    /\ LET name == PairName(Head(dpairs), dev.obj.namespace)
       IN \E r \in KongGet(name) :
            /\ dlog' = Log(dlog, Call(PairIndex, "GET", name, Nil, r))
            /\ IF DeleteAfterGet(r) = "return" THEN Returned("error")
               ELSE Goto("delDelete", Nil)
    /\ UNCHANGED <<envVars, gwVars, ctx, run, peerVars, certs, secret, ccert,
                   clog, dev, reapVars>>

\* deleteKongAPI for the delete handler: DELETE /apis/{name}
DeletedDelete ==
    /\ Alive /\ dpc = "delDelete"
    /\ LET name == PairName(Head(dpairs), dev.obj.namespace)
       IN \E r \in KongDelete(name) :
            /\ dlog' = Log(dlog, Call(PairIndex, "DELETE", name, Nil, r))
            /\ kong' = r.kong
            /\ Returned(DeleteOutcome(r))
    /\ UNCHANGED <<envVars, kongUp, ctx, run, peerVars, certs, secret, ccert,
                   clog, dev, reapVars>>

\* the handler returns to the informer
DispatchReturn ==
    /\ Alive /\ dpc = "done"
    /\ dpc' = "idle"
    /\ dev' = Nil
    /\ dlog' = <<>>
    /\ dres' = <<>>
    /\ clog' = <<>>
    /\ UNCHANGED <<envVars, gwVars, ctx, run, peerVars, certs, secret, cpc,
                   chosts, ccert, dpairs, dapi, reapVars>>

----------------------------------------------------------------------------
(* A second reconcileAPI call for the same (rule, path) pair, running     *)
(* concurrently with the informer's: the same code on its own local state. *)

\* the pair both calls reconcile, and its namespace
SharedPair == Head(Pairs(WebB))
SharedNamespace == WebB.namespace
SharedName == PairName(SharedPair, SharedNamespace)

\* the second call goes on to `step` with the record of its GET
PeerGoto(step, api) ==
    /\ ppc' = IF step = "return" THEN "done" ELSE step
    /\ papi' = IF step = "return" THEN Nil ELSE api

\* the second call is made
PeerStart ==
    /\ Alive /\ ctx = "live" /\ ppc = "idle"
    /\ ppc' = "get"
    /\ UNCHANGED <<papi, plog>>
    /\ UNCHANGED <<envVars, gwVars, ctx, run, certVars, dispVars, reapVars>>

\* the second call: GET /apis/{name}
PeerGet ==
    /\ Alive /\ ppc = "get"
    /\ \E r \in KongGet(SharedName) :
         /\ plog' = Log(plog, Call(1, "GET", SharedName, Nil, r))
         /\ IF GetOutcome(r) = "error" THEN PeerGoto("return", Nil)
            ELSE IF GetOutcome(r) = "compare"
                 THEN PeerGoto(NextPatch(r.api, SharedPair, SharedNamespace, 1),
                               r.api)
            ELSE PeerGoto(GetOutcome(r), Nil)
    /\ UNCHANGED <<envVars, gwVars, ctx, run, certVars, dispVars, reapVars>>

\* the second call: POST /apis with the record built from the pair
PeerPost ==
    /\ Alive /\ ppc = "post"
    /\ LET body == apiRequestFromIngress(SharedPair.rule, SharedPair.path,
                                         SharedNamespace)
       IN \E r \in KongPost(body) :
            /\ plog' = Log(plog, Call(1, "POST", "", body, r))
            /\ kong' = r.kong
            /\ rdirty' = (rdirty \/ (InCycle /\ ~r.err))
            /\ PeerGoto("return", Nil)
    /\ UNCHANGED <<envVars, kongUp, ctx, run, certVars, dispVars,
                   rpc, rapis, ringmap, rtodo, rname, rlog, rerr>>

\* the second call: PATCH of the field at hand, then on to the next drifted
\* field
PeerPatch ==
    /\ Alive /\ ppc \in {Fields[k] : k \in 1..Len(Fields)}
    /\ LET body == PatchBody(ppc, papi, SharedPair, SharedNamespace)
       IN \E r \in KongPatch(body) :
            /\ plog' = Log(plog, Call(1, "PATCH", papi.id, body, r))
            /\ kong' = r.kong
            /\ IF PatchOutcome(r) = "return" THEN PeerGoto("return", Nil)
               ELSE PeerGoto(NextPatch(ComparedRecord(papi, r), SharedPair,
                                       SharedNamespace, FieldIndex(ppc) + 1),
                             ComparedRecord(papi, r))
    /\ UNCHANGED <<envVars, kongUp, ctx, run, certVars, dispVars, reapVars>>

----------------------------------------------------------------------------
(* reconcileCertificate, which ingressChanged calls for every TLS entry of  *)
(* the ingress after each reconcileAPI. Strings are sequences of characters *)
(* here, so that trimming is computed.                                      *)

\* strings.Trim(s, cutset): s without its leading and trailing characters
\* that are in cutset
RECURSIVE TrimLeft(_, _)
TrimLeft(s, cutset) ==
    IF s # <<>> /\ Head(s) \in cutset THEN TrimLeft(Tail(s), cutset) ELSE s

RECURSIVE TrimRight(_, _)
TrimRight(s, cutset) ==
    IF s # <<>> /\ s[Len(s)] \in cutset
    THEN TrimRight(SubSeq(s, 1, Len(s) - 1), cutset)
    ELSE s

Trim(s, cutset) == TrimRight(TrimLeft(s, cutset), cutset)

trimSet == {"\n"}

\* the comparison without the trimming
CertificateDrift_Exact(kongCertificate, secretCertString, secretKeyString) ==
    \/ kongCertificate.cert # secretCertString
    \/ kongCertificate.key # secretKeyString

\* the gateway's certificate is out of date
CertificateDrift(kongCertificate, secretCertString, secretKeyString) ==
    \/ Trim(kongCertificate.cert, trimSet) # Trim(secretCertString, trimSet)
    \/ Trim(kongCertificate.key, trimSet) # Trim(secretKeyString, trimSet)

CertId(host) == "cert:" \o host

\* the result of a call on /certificates; status 0 stands for no response
CertAnswer(status, cert, cs) ==
    [err |-> status = 0 \/ status >= 300, status |-> status, cert |-> cert,
     certs |-> cs]

\* what a call on /certificates gets while the gateway is unavailable
CertUnavailable == {CertAnswer(500, Nil, certs), CertAnswer(0, Nil, certs)}

\* GET /certificates/{host}
CertificatesGet(host) ==
    IF ~kongUp THEN CertUnavailable
    ELSE IF host \in DOMAIN certs THEN {CertAnswer(200, certs[host], certs)}
    ELSE {CertAnswer(StatusNotFound, Nil, certs)}

\* POST /certificates: an SNI belongs to one certificate
CertificatesPost(body) ==
    IF ~kongUp THEN CertUnavailable
    ELSE IF body.snis \in DOMAIN certs THEN {CertAnswer(409, Nil, certs)}
    ELSE LET new == [id |-> CertId(body.snis), cert |-> body.cert,
                     key |-> body.key]
         IN  {CertAnswer(201, new, certs @@ (body.snis :> new))}

\* PATCH /certificates/{id}
CertificatesPatch(body, id) ==
    IF ~kongUp THEN CertUnavailable
    ELSE IF ~\E h \in DOMAIN certs : certs[h].id = id
    THEN {CertAnswer(StatusNotFound, Nil, certs)}
    ELSE LET h   == CHOOSE h \in DOMAIN certs : certs[h].id = id
             new == [certs[h] EXCEPT !.cert = body.cert, !.key = body.key]
         IN  {CertAnswer(200, new, [certs EXCEPT ![h] = new])}

\* one entry of the handler's log of certificate calls
CertCall(host, op, id, body, r) ==
    [pair |-> PairIndex, host |-> host, op |-> op, id |-> id, body |-> body,
     reply |-> r.cert,
     result |-> IF ~r.err THEN "ok"
                ELSE IF r.status = StatusNotFound THEN "404"
                ELSE "error"]

\* coreClient.Get().Namespace(namespace).Resource("secrets").Name(name)
SecretGet(namespace, name) ==
    IF namespace = "ns" /\ name = SecretName THEN secret ELSE NoSecret

\* the loops over the hosts and over the TLS entries go on to the next host;
\* after the last one ingressChanged takes the next pair
CertNextHost ==
    /\ chosts' = Tail(chosts)
    /\ ccert' = Nil
    /\ IF Len(chosts) > 1
       THEN cpc' = "secret" /\ UNCHANGED <<dpc, dpairs>>
       ELSE cpc' = "idle" /\ NextPair

\* the secret is fetched: an error is logged and the host skipped
CertSecret ==
    /\ Alive /\ dpc = "tls" /\ cpc = "secret"
    /\ IF SecretGet(dev.obj.namespace, Head(chosts).secretName) = NoSecret
       THEN CertNextHost
       ELSE cpc' = "get" /\ UNCHANGED <<chosts, ccert, dpc, dpairs>>
    /\ UNCHANGED <<certs, secret, clog>>
    /\ UNCHANGED <<envVars, gwVars, ctx, run, peerVars, dev, dapi, dlog, dres,
                   reapVars>>

\* kongClient.Certificates.Get(host): any error leads to the POST
CertGet ==
    /\ Alive /\ dpc = "tls" /\ cpc = "get"
    /\ LET host == Head(chosts).host
           sec  == SecretGet(dev.obj.namespace, Head(chosts).secretName)
       IN \E r \in CertificatesGet(host) :
            /\ clog' = Log(clog, CertCall(host, "GET", host, Nil, r))
            /\ IF r.err
               THEN cpc' = "post" /\ UNCHANGED <<chosts, ccert, dpc, dpairs>>
               ELSE IF CertificateDrift(r.cert, sec.crt, sec.key)
                    THEN /\ cpc' = "patch"
                         /\ ccert' = r.cert
                         /\ UNCHANGED <<chosts, dpc, dpairs>>
               ELSE CertNextHost
    /\ UNCHANGED <<certs, secret>>
    /\ UNCHANGED <<envVars, gwVars, ctx, run, peerVars, dev, dapi, dlog, dres,
                   reapVars>>

\* kongClient.Certificates.Post: its error is logged
CertPost ==
    /\ Alive /\ dpc = "tls" /\ cpc = "post"
    /\ LET host == Head(chosts).host
           sec  == SecretGet(dev.obj.namespace, Head(chosts).secretName)
           body == [cert |-> sec.crt, key |-> sec.key, snis |-> host]
       IN \E r \in CertificatesPost(body) :
            /\ clog' = Log(clog, CertCall(host, "POST", None, body, r))
            /\ certs' = r.certs
            /\ CertNextHost
    /\ UNCHANGED secret
    /\ UNCHANGED <<envVars, gwVars, ctx, run, peerVars, dev, dapi, dlog, dres,
                   reapVars>>

\* kongClient.Certificates.Patch: its error is logged
CertPatch ==
    /\ Alive /\ dpc = "tls" /\ cpc = "patch"
    /\ LET host == Head(chosts).host
           sec  == SecretGet(dev.obj.namespace, Head(chosts).secretName)
           body == [cert |-> sec.crt, key |-> sec.key]
       IN \E r \in CertificatesPatch(body, ccert.id) :
            /\ clog' = Log(clog, CertCall(host, "PATCH", ccert.id, body, r))
            /\ certs' = r.certs
            /\ CertNextHost
    /\ UNCHANGED secret
    /\ UNCHANGED <<envVars, gwVars, ctx, run, peerVars, dev, dapi, dlog, dres,
                   reapVars>>

----------------------------------------------------------------------------
(* The orphan reaper: apiReaper and reapOrphanedApis. *)

\* ingMap built without the ingressIsFairGame test
ExpectedNames_Unfiltered(ingressList) ==
    UNION {PairNames(i) : i \in ingressList}

\* ingMap with one name for each ingress, that of its first pair
ExpectedNames_FirstPair(ingressList) ==
    {PairName(Pairs(i)[1], i.namespace) :
        i \in {j \in ingressList : ingressIsFairGame(j) /\ Pairs(j) # <<>>}}

\* ingMap: the names of every (rule, path) pair of every ingress that is fair game
ExpectedNames(ingressList) ==
    UNION {PairNames(i) : i \in {j \in ingressList : ingressIsFairGame(j)}}

\* a cycle that finds no API orphaned
Orphans_Nothing(kongApis, ingMap) == {}

\* the join on the API's id
Orphans_ById(kongApis, ingMap) == {api \in kongApis : api.id \notin ingMap}

\* the APIs of the gateway list the cycle deletes: !ingMap[api.Name]
Orphans(kongApis, ingMap) == {api \in kongApis : api.name \notin ingMap}

\* the list error logged but not returned: the loop runs on an empty ingMap
AfterListError_Continue(kongApis) == Orphans(kongApis, {})

\* the APIs of the gateway list the cycle still looks at once the cluster's
\* list call has failed: none, reapOrphanedApis returns the error
AfterListError(kongApis) == {}

\* the cluster's list read although the gateway's list failed
EndCycle_ListAnyway(err) ==
    /\ rpc' = "listIngresses"
    /\ rerr' = err
    /\ rtodo' = {}
    /\ rname' = None

\* the loop left on an error
EndCycle_Exit(err) ==
    /\ rpc' = "exited"
    /\ rerr' = err
    /\ rtodo' = {}
    /\ rname' = None

\* the cycle is over: apiReaper logs the error, if any, and sleeps
EndCycle(err) ==
    /\ rpc' = "sleep"
    /\ rerr' = err
    /\ rtodo' = {}
    /\ rname' = None

\* the loop over the gateway list left on an error of deleteKongAPI
ReapRemaining_Abort(err, todo) == IF err THEN {} ELSE todo

\* what the loop over the gateway list has still to look at once
\* deleteKongAPI has returned: the rest, whatever it returned
ReapRemaining(err, todo) == todo

\* deleteKongAPI returned to the reaper's loop over the gateway list
NextOrphan(todo) ==
    /\ rtodo' = todo
    /\ rname' = None
    /\ rpc' = IF todo = {} THEN "sleep" ELSE "delGet"
    /\ UNCHANGED rerr

\* the select at the top of the loop never taking the case of ctx.Done()
ContextDone_Never(c) == FALSE

\* select { case <-ctx.Done(): ... default: ... }: the case is taken when the
\* context is done
ContextDone(c) == c # "live"

\* top of the loop, context not done: the select takes its default case and
\* reapOrphanedApis is called; the context is not looked at again before the
\* next turn of the loop
ReapSelect ==
    /\ Alive /\ rpc = "top" /\ ~ContextDone(ctx)
    /\ rpc' = "getAll"
    /\ UNCHANGED <<envVars, gwVars, ctx, run, sideVars, dispVars,
                   rapis, ringmap, rtodo, rname, rlog, rerr, rdirty>>

\* reapOrphanedApis: GET /apis
ReapGetAll ==
    /\ Alive /\ rpc = "getAll"
    /\ \E r \in KongGetAll :
         /\ rlog' = Log(rlog, Call(0, "GET", "/apis", Nil, r))
         /\ IF r.err
            THEN /\ EndCycle("Failed to get kong api list")
                 /\ UNCHANGED rapis
            ELSE /\ rapis' = {[id |-> kong[n].id, name |-> kong[n].name] : n \in DOMAIN kong}
                 /\ rpc' = "listIngresses"
                 /\ UNCHANGED <<rtodo, rname, rerr>>
    /\ UNCHANGED <<envVars, gwVars, ctx, run, sideVars, dispVars, ringmap, rdirty>>

\* the cluster returns the ingress list; ingMap is built from it
ReapListIngresses ==
    /\ Alive /\ rpc = "listIngresses"
    /\ rlog' = Log(rlog, ListCall("ok"))
    /\ ringmap' = ExpectedNames(cluster)
    /\ NextOrphan(Orphans(rapis, ExpectedNames(cluster)))
    /\ UNCHANGED <<envVars, gwVars, ctx, run, sideVars, dispVars, rapis, rdirty>>

\* the cluster's list call fails
ReapListIngressesFails ==
    /\ Alive /\ rpc = "listIngresses"
    /\ rlog' = Log(rlog, ListCall("error"))
    /\ rerr' = "Failed to get ingress list"
    /\ rtodo' = AfterListError(rapis)
    /\ rname' = None
    /\ rpc' = IF AfterListError(rapis) = {} THEN "sleep" ELSE "delGet"
    /\ UNCHANGED <<envVars, gwVars, ctx, run, sideVars, dispVars, rapis, ringmap, rdirty>>

\* deleteKongAPI for an orphan: GET /apis/{name}; the loop takes the orphans
\* in the order of the gateway's list, which is any order
ReapDeleteGet(api) ==
    /\ Alive /\ rpc = "delGet"
    /\ api \in rtodo
    /\ \E r \in KongGet(api.name) :
         /\ rlog' = Log(rlog, Call(0, "GET", api.name, Nil, r))
         /\ IF DeleteAfterGet(r) = "return"
            THEN NextOrphan(ReapRemaining(TRUE, rtodo \ {api}))
            ELSE /\ rpc' = "delDelete"
                 /\ rname' = api.name
                 /\ rtodo' = rtodo \ {api}
                 /\ UNCHANGED rerr
    /\ UNCHANGED <<envVars, gwVars, ctx, run, sideVars, dispVars, rapis, ringmap, rdirty>>

\* deleteKongAPI for an orphan: DELETE /apis/{name}
ReapDeleteDelete ==
    /\ Alive /\ rpc = "delDelete"
    /\ \E r \in KongDelete(rname) :
         /\ rlog' = Log(rlog, Call(0, "DELETE", rname, Nil, r))
         /\ kong' = r.kong
         /\ NextOrphan(ReapRemaining(DeleteOutcome(r) = "error", rtodo))
    /\ UNCHANGED <<envVars, kongUp, ctx, run, sideVars, dispVars, rapis, ringmap, rdirty>>

\* time.Sleep(FullResyncInterval), then back to the top of the loop
ReapSleep ==
    /\ Alive /\ rpc = "sleep"
    /\ rpc' = "top"
    /\ rapis' = {}
    /\ ringmap' = {}
    /\ rlog' = <<>>
    /\ rerr' = None
    /\ rdirty' = FALSE
    /\ UNCHANGED <<envVars, gwVars, ctx, run, sideVars, dispVars, rtodo, rname>>

\* top of the loop, context done: the reaper's goroutine returns
ReapExit ==
    /\ Alive /\ rpc = "top" /\ ContextDone(ctx)
    /\ rpc' = "exited"
    /\ UNCHANGED <<envVars, gwVars, ctx, run, sideVars, dispVars,
                   rapis, ringmap, rtodo, rname, rlog, rerr, rdirty>>

----------------------------------------------------------------------------
(* Run. *)

\* createWatches builds the informer and starts it; it returns no error
createWatchesFails == FALSE

\* ctx.Err(): nil until the context is done, then why it is done
ContextErr(c) ==
    CASE c = "live"     -> "nil"
      [] c = "canceled" -> "context canceled"
      [] c = "deadline" -> "context deadline exceeded"

\* Run going on without the receive from ctx.Done()
RunUnblocked_Always(c) == TRUE

\* <-ctx.Done() blocks until the context is done
RunUnblocked(c) == c # "live"

\* Run: createWatches, which starts the informer, then go apiReaper
RunStart ==
    /\ run = "start"
    /\ IF createWatchesFails
       THEN /\ run' = "Failed to register watchers for Ingress resources"
            /\ UNCHANGED <<dpc, rpc>>
       ELSE /\ run' = "waiting"
            /\ dpc' = "idle"
            /\ rpc' = "top"
    /\ UNCHANGED <<envVars, gwVars, ctx, dev, dpairs, dapi, dlog, dres,
                   rapis, ringmap, rtodo, rname, rlog, rerr, rdirty, sideVars>>

\* Run: <-ctx.Done(); return ctx.Err()
RunReturn ==
    /\ run = "waiting" /\ RunUnblocked(ctx)
    /\ run' = ContextErr(ctx)
    /\ UNCHANGED <<envVars, gwVars, ctx, dispVars, reapVars, sideVars>>

\* the caller cancels the context, or its deadline passes
Cancel(why) ==
    /\ ctx = "live"
    /\ ctx' = why
    /\ UNCHANGED <<envVars, gwVars, run, sideVars, dispVars, reapVars>>

----------------------------------------------------------------------------
(* The environment: the cluster's users and the gateway's availability. *)

Changed ==
    /\ changes' = changes + 1
    /\ UNCHANGED tracing
    /\ rdirty' = (rdirty \/ InCycle)
    /\ UNCHANGED <<gwVars, ctx, run, sideVars, dispVars,
                   rpc, rapis, ringmap, rtodo, rname, rlog, rerr>>

CreateIngress(i) ==
    /\ changes < MaxChanges
    /\ \A j \in cluster : ~SameKey(i, j)
    /\ cluster' = cluster \cup {i}
    /\ queue' = Append(queue, AddEvent(i))
    /\ Changed

UpdateIngress(i, j) ==
    /\ changes < MaxChanges
    /\ i \in cluster /\ SameKey(i, j) /\ i # j
    /\ cluster' = (cluster \ {i}) \cup {j}
    /\ queue' = Append(queue, UpdateEvent(i, j))
    /\ Changed

RemoveIngress(i) ==
    /\ changes < MaxChanges
    /\ i \in cluster
    /\ cluster' = cluster \ {i}
    /\ queue' = Append(queue, DeleteEvent(i))
    /\ Changed

GatewayDown ==
    /\ kongUp
    /\ kongUp' = FALSE
    /\ UNCHANGED <<envVars, kong, ctx, run, sideVars, dispVars, reapVars>>

GatewayUp ==
    /\ ~kongUp
    /\ kongUp' = TRUE
    /\ UNCHANGED <<envVars, kong, ctx, run, sideVars, dispVars, reapVars>>

\* somebody else deletes an API
OtherDelete(name) ==
    /\ kongUp /\ name \in DOMAIN kong
    /\ kong' = Without(kong, name)
    /\ UNCHANGED <<envVars, kongUp, ctx, run, sideVars, dispVars, reapVars>>

\* what somebody else sets a field of an API to
OtherBody(field) ==
    CASE field = "upstreamURL"  -> [upstreamURL |-> "http://gone.ns:80"]
      [] field = "hosts"        -> [hosts |-> "b"]
      [] field = "preserveHost" -> [preserveHost |-> FALSE]
      [] field = "stripURI"     -> [stripURI |-> BoolPtr(TRUE)]
      [] field = "uris"         -> [uris |-> "/x"]

\* somebody else patches an API
OtherPatch(name, field) ==
    /\ kongUp /\ name \in DOMAIN kong
    /\ kong' = [kong EXCEPT ![name] = PatchedApi(@, OtherBody(field))]
    /\ UNCHANGED <<envVars, kongUp, ctx, run, sideVars, dispVars, reapVars>>

\* somebody else creates an API
OtherCreate(name) ==
    /\ kongUp /\ name \notin DOMAIN kong
    /\ kong' = kong @@ (name :> [id           |-> KongId(name),
                                 name         |-> name,
                                 upstreamURL  |-> "http://svc1.ns:80",
                                 hosts        |-> Slice(<<"a">>),
                                 uris         |-> Slice(<<"/">>),
                                 preserveHost |-> TRUE,
                                 stripURI     |-> BoolPtr(FALSE)])
    /\ rdirty' = (rdirty \/ InCycle)
    /\ UNCHANGED <<envVars, kongUp, ctx, run, sideVars, dispVars,
                   rpc, rapis, ringmap, rtodo, rname, rlog, rerr>>

----------------------------------------------------------------------------
(* The system. *)

\* a record left on the gateway that agrees with no ingress in any field
StaleApi(name) ==
    [id           |-> KongId(name),
     name         |-> name,
     upstreamURL  |-> "http://gone.ns:80",
     hosts        |-> NilSlice,
     uris         |-> NilSlice,
     preserveHost |-> FALSE,
     stripURI     |-> BoolPtr(TRUE)]

\* nothing has run yet
Quiet ==
    /\ changes = 0
    /\ ctx = "live" /\ run = "waiting"
    /\ dpc = "idle" /\ dev = Nil /\ dpairs = <<>> /\ dapi = Nil
    /\ dlog = <<>> /\ dres = <<>>
    /\ rpc = "top" /\ rapis = {} /\ ringmap = {} /\ rtodo = {}
    /\ rname = None /\ rlog = <<>> /\ rerr = None /\ rdirty = FALSE
    /\ ppc = "idle" /\ papi = Nil /\ plog = <<>>
    /\ cpc = "idle" /\ chosts = <<>> /\ ccert = Nil /\ clog = <<>>

\* the same, with no certificate on the gateway and no secret in the cluster
Started == Quiet /\ certs = <<>> /\ secret = NoSecret

Idle == queue = <<>> /\ Started

\* the secret the TLS entries name, and a certificate for host "a" that it
\* outdates
TheSecret == [crt |-> <<"A">>, key |-> <<"K">>]
OutdatedCerts ==
    ("a" :> [id |-> CertId("a"), cert |-> <<"B">>, key |-> <<"K">>])

\* nothing has run yet; the cluster holds the secret and the gateway the
\* outdated certificate
Secured ==
    queue = <<>> /\ Quiet /\ certs = OutdatedCerts /\ secret = TheSecret

Leftovers(names) == {[n \in S |-> StaleApi(n)] : S \in SUBSET names}

ClustersOf(universe) == {c \in SUBSET universe : ClusterOK(c)}

\* the steps of the informer's goroutine: the delivery of an event and the
\* handler it runs, reconcileCertificate included
Dispatcher ==
    \/ DispatchEvent
    \/ \E i \in cluster : DispatchResync(i)
    \/ ReconcileGet
    \/ ReconcilePost
    \/ ReconcilePatch
    \/ CertSecret
    \/ CertGet
    \/ CertPost
    \/ CertPatch
    \/ DeletedGet
    \/ DeletedDelete
    \/ DispatchReturn

Reaper ==
    \/ ReapSelect
    \/ ReapGetAll
    \/ ReapListIngresses
    \/ ReapListIngressesFails
    \/ \E api \in rtodo : ReapDeleteGet(api)
    \/ ReapDeleteDelete
    \/ ReapSleep

ClusterUsers(universe) ==
    \/ \E i \in universe : CreateIngress(i)
    \/ \E i, j \in universe : UpdateIngress(i, j)
    \/ \E i \in universe : RemoveIngress(i)

Gateway == GatewayDown \/ GatewayUp

\* The whole controller: both goroutines, the cluster's users, the outages.
System == {WebA, SecureB, Single}

Init ==
    /\ cluster \in {{WebA}, {SecureB, Single}}
    /\ kong \in Leftovers(Names)
    /\ kongUp = TRUE
    /\ tracing = FALSE
    /\ Secured

Next == Dispatcher \/ Reaper \/ ClusterUsers(System) \/ Gateway

Spec == Init /\ [][Next]_vars

\* The whole controller under fair scheduling: a goroutine that can take a
\* step takes it; the informer goes on delivering the queued events and, every
\* resync period, each ingress of the store; the cluster's list call does
\* not fail forever.
Fairness ==
    /\ WF_vars(ReconcileGet \/ ReconcilePost \/ ReconcilePatch
                  \/ CertSecret \/ CertGet \/ CertPost \/ CertPatch
                  \/ DeletedGet \/ DeletedDelete \/ DispatchReturn)
    /\ SF_vars(DispatchEvent)
    /\ \A i \in System : SF_vars(DispatchResync(i))
    /\ WF_vars(ReapSelect \/ ReapGetAll
                  \/ (\E api \in rtodo : ReapDeleteGet(api))
                  \/ ReapDeleteDelete \/ ReapSleep)
    /\ SF_vars(ReapListIngresses)

FairSpec == Init /\ [][Next]_vars /\ Fairness

\* The informer's goroutine alone, its calls logged; the APIs it works on may
\* be deleted under it at any moment (by the reaper, or by anyone else).
InitD ==
    /\ cluster = {WebA, Foreign}
    /\ kong \in Leftovers(Names)
    /\ kongUp = TRUE
    /\ tracing = TRUE
    /\ Secured

NextD ==
    \/ Dispatcher
    \/ ClusterUsers(Ingresses)
    \/ Gateway
    \/ \E n \in Names : OtherDelete(n)

SpecD == InitD /\ [][NextD]_vars

\* The reaper's goroutine alone, its calls logged; APIs may be created and
\* deleted under it at any moment (by the handlers, or by anyone else).
InitR ==
    /\ cluster \in ClustersOf(Ingresses)
    /\ kong \in Leftovers(Names)
    /\ kongUp = TRUE
    /\ tracing = TRUE
    /\ Idle

NextR ==
    \/ Reaper
    \/ ClusterUsers(Ingresses)
    \/ Gateway
    \/ \E n \in Names : OtherCreate(n)
    \/ \E n \in Names : OtherDelete(n)

SpecR == InitR /\ [][NextR]_vars

\* The reaper's goroutine, scheduled, over a cluster that does not change:
\* its sleep ends, and at the top of its loop it goes on.
NextL ==
    \/ Reaper
    \/ Gateway
    \/ \E n \in Names : OtherCreate(n)
    \/ \E n \in Names : OtherDelete(n)

FairR == InitR /\ [][NextL]_vars /\ WF_vars(ReapSleep \/ ReapSelect \/ ReapGetAll)

\* an API no ingress accounts for
OrphanName == "orphanedAPI1"

\* Both goroutines, their calls logged, for one ingress with two pairs; a
\* user may add another controller's ingress, and the gateway fails and
\* recovers at any moment.
InitO ==
    /\ cluster = {WebA}
    /\ kong \in Leftovers(PairNames(WebA) \cup {OrphanName})
    /\ kongUp = TRUE
    /\ tracing = TRUE
    /\ Idle

NextO ==
    \/ \E i \in cluster : DispatchResync(i)
    \/ ReconcileGet
    \/ ReconcilePost
    \/ ReconcilePatch
    \/ DispatchReturn
    \/ DispatchEvent
    \/ \E i \in {Foreign} : CreateIngress(i)
    \/ Reaper
    \/ Gateway

SpecO == InitO /\ [][NextO]_vars

\* Every record the gateway may hold under a name: each field agreeing with
\* the pair ("a", "/") -> svc2:8080 of WebB, or not
AnyApi(name) ==
    {[id           |-> KongId(name),
      name         |-> name,
      upstreamURL  |-> u,
      hosts        |-> h,
      uris         |-> p,
      preserveHost |-> ph,
      stripURI     |-> BoolPtr(st)] :
        u \in {"http://svc2.ns:8080", "http://gone.ns:80"},
        h \in {NilSlice, Slice(<<>>), Slice(<<"a">>), Slice(<<"b">>),
               Slice(<<"a", "b">>)},
        p \in {NilSlice, Slice(<<>>), Slice(<<"/">>), Slice(<<"/x">>),
               Slice(<<"/", "/x">>)},
        ph \in BOOLEAN, st \in BOOLEAN}

\* reconcileAPI alone, resync after resync of one ingress with one pair,
\* starting from any record under the pair's name, or none; the gateway may
\* fail at any call, and nothing else writes to it.
InitP ==
    /\ cluster = {WebB}
    /\ kong \in {<<>>} \cup UNION {{(n :> r) : r \in AnyApi(n)} : n \in PairNames(WebB)}
    /\ kongUp = TRUE
    /\ tracing = TRUE
    /\ Idle

NextP ==
    \/ \E i \in cluster : DispatchResync(i)
    \/ ReconcileGet
    \/ ReconcilePost
    \/ ReconcilePatch
    \/ DispatchReturn
    \/ Gateway

SpecP == InitP /\ [][NextP]_vars

\* The same with another writer: somebody else may change any field of the
\* record at any moment, between the calls of a reconcile too.
InitG ==
    /\ cluster = {WebB}
    /\ kong \in Leftovers(PairNames(WebB))
    /\ kongUp = TRUE
    /\ tracing = TRUE
    /\ Idle

NextG ==
    \/ NextP
    \/ \E n \in PairNames(WebB) :
          \E f \in {"upstreamURL", "hosts", "uris"} : OtherPatch(n, f)

SpecG == InitG /\ [][NextG]_vars

\* the same records, and each of them without its stripURI
AnyApiOrNull(name) ==
    AnyApi(name) \cup {[r EXCEPT !.stripURI = NilBool] : r \in AnyApi(name)}

\* WebA after an update that moves "/x" to "/y" (the pair's name changes), and
\* after one that hands it to another controller
Moved == Ingress("web", NoAnnotation, FALSE,
             <<Rule("a", <<Path("/", Backend("svc1", IntPort(80))),
                           Path("/y", Backend("svc2", NamedPort("http")))>>)>>)
Handed == [WebA EXCEPT !.class = "nginx"]
UpdatesOfWebA == {Moved, Handed, WebB}

\* the APIs reconcileAPI has created for an ingress
CreatedFor(ingress) ==
    [n \in PairNames(ingress) |->
        LET pair == CHOOSE q \in {Pairs(ingress)[k] : k \in 1..Len(Pairs(ingress))} :
                        PairName(q, ingress.namespace) = n
        IN  CreatedApi(apiRequestFromIngress(pair.rule, pair.path,
                                             ingress.namespace))]

\* Both goroutines, their calls logged, around one update of an ingress whose
\* APIs exist: a pair is renamed or removed, or the ingress stops being fair
\* game; another ingress that derives the name of the pair may be there; the
\* gateway fails and recovers at any moment.
InitU ==
    /\ cluster \in {{WebA}, {WebA, Single}}
    /\ kong = CreatedFor(WebA)
    /\ kongUp = TRUE
    /\ tracing = TRUE
    /\ Idle

NextU ==
    \/ DispatchEvent
    \/ ReconcileGet
    \/ ReconcilePost
    \/ ReconcilePatch
    \/ DispatchReturn
    \/ \E j \in UpdatesOfWebA : UpdateIngress(WebA, j)
    \/ Reaper
    \/ Gateway

SpecU == InitU /\ [][NextU]_vars

\* the certificate and key strings of the model: with and without leading
\* and trailing newlines, with a newline inside, with a trailing blank
CertStrings ==
    {<<>>, <<"\n">>, <<"A">>, <<"A", "\n">>, <<"\n", "A">>,
     <<"\n", "A", "\n", "\n">>, <<"A", "\n", "B">>, <<"A", "B">>, <<"B">>,
     <<"A", " ">>}
KeyStrings == {<<"K">>, <<"K", "\n">>, <<"\n", "K">>, <<"L">>}

\* the certificate stores of the model: any certificate, or none, for host
\* "a"; one certificate, or none, for host "b"
CertStores ==
    LET forA == {<<>>} \cup
                {("a" :> [id |-> CertId("a"), cert |-> c, key |-> k]) :
                    c \in CertStrings, k \in KeyStrings}
        forB == {<<>>, ("b" :> [id |-> CertId("b"), cert |-> <<"C">>,
                                key |-> <<"M">>])}
    IN  {x @@ y : x \in forA, y \in forB}

Secrets ==
    {NoSecret} \cup {[crt |-> c, key |-> k] : c \in CertStrings, k \in KeyStrings}

\* The add/update handler for an ingress with TLS entries, its calls logged;
\* the gateway may fail at any call. The ingress of one pair starts from any
\* certificate on the gateway and any secret, the ingress of two pairs from
\* no certificate or an outdated one.
InitT ==
    /\ \/ cluster = {SecureB} /\ certs \in CertStores /\ secret \in Secrets
       \/ /\ cluster = {SecureA}
          /\ certs \in {cs \in CertStores :
                          \A h \in DOMAIN cs : cs[h].cert = <<"B">>}
          /\ secret \in {x \in Secrets :
                           x = NoSecret \/ (x.crt = <<"A">> /\ x.key = <<"K">>)}
    /\ kong = <<>>
    /\ kongUp = TRUE
    /\ tracing = TRUE
    /\ queue = <<>>
    /\ Quiet

NextT ==
    \/ \E i \in cluster : DispatchResync(i)
    \/ ReconcileGet
    \/ ReconcilePost
    \/ DispatchReturn
    \/ CertSecret
    \/ CertGet
    \/ CertPost
    \/ CertPatch
    \/ Gateway

SpecT == InitT /\ [][NextT]_vars

\* Both goroutines, their calls logged, while an ingress is created whose
\* APIs may be on the gateway already, left from an earlier life of the
\* ingress; the gateway answers every call.
InitX ==
    /\ cluster \in {{}, {WebA}}
    /\ kong \in Leftovers(PairNames(WebA))
    /\ kongUp = TRUE
    /\ tracing = TRUE
    /\ Idle

NextX ==
    \/ DispatchEvent
    \/ ReconcileGet
    \/ ReconcilePost
    \/ ReconcilePatch
    \/ DispatchReturn
    \/ CreateIngress(WebA)
    \/ Reaper

SpecX == InitX /\ [][NextX]_vars

\* Two reconcileAPI calls for the same pair at once, the informer's and a
\* second one, interleaved call by call, starting from any record under the
\* pair's name, or none; the gateway answers every call and nothing else
\* writes to it.
InitC ==
    /\ cluster = {WebB}
    /\ kong \in {<<>>} \cup {(SharedName :> r) : r \in AnyApiOrNull(SharedName)}
    /\ kongUp = TRUE
    /\ tracing = TRUE
    /\ Idle

NextC ==
    \/ DispatchResync(WebB)
    \/ ReconcileGet
    \/ ReconcilePost
    \/ ReconcilePatch
    \/ PeerStart
    \/ PeerGet
    \/ PeerPost
    \/ PeerPatch

SpecC == InitC /\ [][NextC]_vars

\* reconcileAPI alone, as in SpecP, starting also from the records whose
\* stripURI is null.
InitQ ==
    /\ cluster = {WebB}
    /\ kong \in {<<>>} \cup UNION {{(n :> r) : r \in AnyApiOrNull(n)} : n \in PairNames(WebB)}
    /\ kongUp = TRUE
    /\ tracing = TRUE
    /\ Idle

SpecQ == InitQ /\ [][NextP]_vars

\* The delete handler alone, for an ingress whose two pairs derive the same
\* name: deleteKongAPI runs twice in a row for that name.
InitDel ==
    /\ cluster \in {{Twice}, {Twice, Foreign}}
    /\ kong \in Leftovers(Names)
    /\ kongUp = TRUE
    /\ tracing = TRUE
    /\ Idle

NextDel ==
    \/ \E i \in {Twice, Foreign} : RemoveIngress(i)
    \/ DispatchEvent
    \/ DeletedGet
    \/ DeletedDelete
    \/ DispatchReturn
    \/ Gateway

SpecDel == InitDel /\ [][NextDel]_vars

\* the values of the ingress-class annotation: absent, the controller's
\* class, empty, another controller's class, the class in another case
ClassValues == {NoAnnotation, kongIngressControllerClass, "", "nginx", "Kong"}

\* ingresses that differ in the annotation, and in everything else
Classed(class, hasBackend) ==
    Ingress("classed", class, hasBackend,
            <<Rule("a", <<Path("/", Backend("svc1", IntPort(80)))>>)>>)

ClassUniverse ==
    {Classed(c, b) : c \in ClassValues, b \in BOOLEAN} \cup {SecureB, Foreign}

\* The informer's goroutine, its calls logged, for ingresses of every class
\* annotation: created, updated from one class to another, and removed.
InitE ==
    /\ cluster \in {{}} \cup {{i} : i \in ClassUniverse}
    /\ kong \in Leftovers(PairNames(SecureB))
    /\ kongUp = TRUE
    /\ tracing = TRUE
    /\ Secured

NextE ==
    \/ Dispatcher
    \/ ClusterUsers(ClassUniverse)
    \/ Gateway

SpecE == InitE /\ [][NextE]_vars

\* two paths of the same length whose bytes have the same sum and the same
\* weighted sum
Aca == Ingress("aca", "kong", FALSE,
           <<Rule("a", <<Path("/aca", Backend("svc1", IntPort(80)))>>)>>)
Bab == Ingress("bab", "kong", FALSE,
           <<Rule("a", <<Path("/bab", Backend("svc2", IntPort(80)))>>)>>)
\* the host and path of WebB under another name, in another namespace, and
\* for another host
Again == Ingress("again", "kong", FALSE,
             <<Rule("a", <<Path("/", Backend("svc2", IntPort(8080)))>>)>>)
Elsewhere == [WebB EXCEPT !.namespace = "n2"]
Dotted == [Ingress("web.ns", "kong", FALSE,
                   <<Rule("b", <<Path("/", Backend("svc1", IntPort(80)))>>)>>)
             EXCEPT !.namespace = "n2"]

NameUniverse == {Aca, Bab, WebB, Again, Elsewhere, Dotted}

\* The add/update handler, its calls logged, resync after resync of two
\* ingresses that hold one (rule, path) pair each; nothing else writes to
\* the gateway.
InitN ==
    /\ cluster \in {c \in ClustersOf(NameUniverse) : Cardinality(c) = 2}
    /\ kong = <<>>
    /\ kongUp = TRUE
    /\ tracing = TRUE
    /\ Idle

NextN ==
    \/ \E i \in cluster : DispatchResync(i)
    \/ ReconcileGet
    \/ ReconcilePost
    \/ ReconcilePatch
    \/ DispatchReturn
    \/ Gateway

SpecN == InitN /\ [][NextN]_vars

\* The informer's goroutine, its calls logged, for three ingresses whose
\* APIs exist (one of them drifted), two of which share host, path and
\* namespace and so derive one name; a user removes one of them; the
\* gateway fails and recovers at any moment.
Sharing == {SecureB, Again, Bab}

InitS ==
    /\ cluster = Sharing
    /\ kong = CreatedFor(SecureB) @@ [n \in PairNames(Bab) |-> StaleApi(n)]
    /\ kongUp = TRUE
    /\ tracing = TRUE
    /\ Secured

NextS ==
    \/ Dispatcher
    \/ \E i \in Sharing : RemoveIngress(i)
    \/ Gateway

SpecS == InitS /\ [][NextS]_vars

\* Both goroutines, their calls logged, while an ingress whose APIs exist is
\* removed: the delete handler and the reaper go for the same names, call
\* by call in any order; another ingress and its API stay; the gateway
\* answers every call.
InitK ==
    /\ cluster = {WebA, Bab}
    /\ kong = CreatedFor(WebA) @@ CreatedFor(Bab)
    /\ kongUp = TRUE
    /\ tracing = TRUE
    /\ Idle

NextK ==
    \/ RemoveIngress(WebA)
    \/ DispatchEvent
    \/ DeletedGet
    \/ DeletedDelete
    \/ DispatchReturn
    \/ Reaper

SpecK == InitK /\ [][NextK]_vars

\* one rule with two paths that derive the same name, with different backends
Clash == Ingress("clash", "kong", FALSE,
             <<Rule("a", <<Path("/aca", Backend("svc1", IntPort(80))),
                           Path("/bab", Backend("svc2", IntPort(80)))>>)>>)

Redelivered == {WebA, WebB, Twice, Clash, Single, Foreign}

\* the events that deliver an ingress to the add and update handlers: the
\* add, and the update from any previous object
EventsFor(new) == {AddEvent(new)} \cup {UpdateEvent(old, new) : old \in Redelivered}

\* The add/update handler, its calls logged, for two events in a row that
\* deliver the same ingress; the gateway answers every call and nothing else
\* writes to it.
InitI ==
    /\ \E new \in Redelivered :
          /\ cluster = {new}
          /\ queue \in {<<e1, e2>> : e1 \in EventsFor(new), e2 \in EventsFor(new)}
          /\ kong \in Leftovers(PairNames(new) \cup {OrphanName})
    /\ kongUp = TRUE
    /\ tracing = TRUE
    /\ Started

NextI ==
    \/ DispatchEvent
    \/ ReconcileGet
    \/ ReconcilePost
    \/ ReconcilePatch
    \/ DispatchReturn

SpecI == InitI /\ [][NextI]_vars

\* The delete handler for ingresses of every shape: two pairs with two names,
\* two pairs deriving one name (the same host and path twice, and two paths
\* whose hashes collide), a default backend, and an ingress of another class;
\* other clients of the gateway create and delete APIs in between.
Removable == {WebA, Foreign, Twice, Single, Clash}
RemovableNames == UNION {PairNames(i) : i \in Removable}

InitH ==
    /\ cluster \in {{WebA, Foreign}, {Twice, Single}, {Clash}}
    /\ kong \in Leftovers(UNION {PairNames(i) : i \in cluster})
    /\ kongUp = TRUE
    /\ tracing = TRUE
    /\ Idle

NextH ==
    \/ \E i \in Removable : RemoveIngress(i)
    \/ DispatchEvent
    \/ DeletedGet
    \/ DeletedDelete
    \/ DispatchReturn
    \/ Gateway
    \/ \E n \in RemovableNames : OtherDelete(n)
    \/ \E n \in RemovableNames : OtherCreate(n)

SpecH == InitH /\ [][NextH]_vars

\* Run from its first statement to its return: both goroutines, for one
\* ingress and an orphan, with the gateway and the cluster's list call
\* failing at any moment, and the context cancelled at any moment.
InitRun ==
    /\ cluster = {WebB}
    /\ kong \in Leftovers(PairNames(WebB) \cup {OrphanName})
    /\ kongUp = TRUE
    /\ tracing = FALSE
    /\ changes = 0 /\ queue = <<>>
    /\ ctx = "live" /\ run = "start"
    /\ dpc = "unstarted" /\ dev = Nil /\ dpairs = <<>> /\ dapi = Nil
    /\ dlog = <<>> /\ dres = <<>>
    /\ rpc = "unstarted" /\ rapis = {} /\ ringmap = {} /\ rtodo = {}
    /\ rname = None /\ rlog = <<>> /\ rerr = None /\ rdirty = FALSE
    /\ ppc = "idle" /\ papi = Nil /\ plog = <<>>
    /\ certs = <<>> /\ secret = NoSecret
    /\ cpc = "idle" /\ chosts = <<>> /\ ccert = Nil /\ clog = <<>>

NextRun ==
    \/ RunStart
    \/ RunReturn
    \/ \E why \in {"canceled", "deadline"} : Cancel(why)
    \/ \E i \in cluster : DispatchResync(i)
    \/ ReconcileGet
    \/ ReconcilePost
    \/ ReconcilePatch
    \/ DispatchReturn
    \/ Reaper
    \/ ReapExit
    \/ Gateway

\* Run's goroutine is scheduled: it starts, and it goes on once the receive
\* from ctx.Done() can proceed
FairRun == InitRun /\ [][NextRun]_vars /\ WF_vars(RunStart \/ RunReturn)

\* The same with the reaper's goroutine scheduled as well: whatever step it
\* can take, it takes.
FairReap ==
    /\ InitRun /\ [][NextRun]_vars
    /\ WF_vars(RunStart \/ RunReturn)
    /\ WF_vars(Reaper \/ ReapExit)

----------------------------------------------------------------------------
(* Properties of the reaper (SpecR). *)

\* the specification's isEligible: the class annotation is absent or names
\* the controller's class
isEligible(ingress) ==
    ingress.class = NoAnnotation \/ ingress.class = "kong"

\* the eligible-ingress name set of a cluster
EligibleNames(c) == UNION {PairNames(i) : i \in {j \in c : isEligible(j)}}

\* the gateway holds no API outside the eligible-ingress name set
NoOrphan == \A n \in DOMAIN kong : n \in EligibleNames(cluster)

AllOk(log) == \A k \in 1..Len(log) : log[k].result = "ok"

CycleCompleted == rpc = "sleep" /\ rerr = None

\* C1, as stated: once a reaper cycle has completed, every gateway API whose
\* name is not among the qualified names of the (rule, path) pairs of the
\* currently eligible ingresses is absent from the gateway (nothing having
\* changed the cluster or created an API since the cycle began).
C1_AsStated == (CycleCompleted /\ ~rdirty) => NoOrphan

\* C1, amended: once a reaper cycle has completed in which every call (the
\* two lists, every per-API GET and DELETE) succeeded, and as long as the
\* cluster's ingress set has not changed and no API has been created since
\* the cycle began, every gateway API whose name is not among the qualified
\* names of the pairs of the eligible ingresses is absent from the gateway.
C1_CleanCycleLeavesNoOrphan ==
    (CycleCompleted /\ AllOk(rlog) /\ ~rdirty) => NoOrphan

\* a clean cycle has completed that deleted an orphan and kept an expected API
C1_Witness ==
    /\ CycleCompleted /\ AllOk(rlog) /\ ~rdirty
    /\ \E k \in 1..Len(rlog) : rlog[k].op = "DELETE"
    /\ \E api \in rapis : api.name \in DOMAIN kong

\* C2: when the cluster's ingress-list call fails during a reaper cycle, the
\* cycle issues no per-API GET and no DELETE (its only gateway call is the
\* GET of the list, so it leaves the gateway's API set as it is) and the
\* error is returned to apiReaper's loop, which goes to sleep.
C2_ListFailureAbortsCycle ==
    (\E k \in 1..Len(rlog) : rlog[k].op = "LIST" /\ rlog[k].result = "error")
        => /\ Len(rlog) = 2
           /\ rlog[1].op = "GET" /\ rlog[1].path = "/apis"
           /\ rlog[2].op = "LIST"
           /\ rpc = "sleep" /\ rtodo = {}
           /\ rerr = "Failed to get ingress list"

\* the ingress list failed in a cycle whose gateway list held an orphan,
\* and the orphan is still on the gateway
C2_Witness ==
    /\ rpc = "sleep" /\ rerr = "Failed to get ingress list"
    /\ Len(rlog) = 2 /\ rlog[2].result = "error"
    /\ \E api \in rapis : api.name \notin EligibleNames(cluster)
                            /\ api.name \in DOMAIN kong

\* every DELETE of the cycle went, by name, to an API of the cycle's gateway
\* list whose name is not in the cycle's ingMap, after both lists succeeded
DeletesOnlyOrphans ==
    \A c \in DOMAIN rlog :
        rlog[c].op = "DELETE" =>
            /\ rlog[c].path \in {api.name : api \in rapis}
            /\ rlog[c].path \notin ringmap
            /\ rlog[c].path \notin {api.id : api \in rapis}
            /\ rlog[1].op = "GET" /\ rlog[1].path = "/apis" /\ rlog[1].result = "ok"
            /\ rlog[2] = ListCall("ok")

\* the gateway list of the cycle is what the gateway held when it was asked
ListIsGateway ==
    (rpc = "getAll" /\ rpc' = "listIngresses") =>
        {api.name : api \in rapis'} = DOMAIN kong

\* the ingMap of the cycle is built from every pair of every eligible ingress
\* of the snapshot, and holds every name the add/update handler derives for
\* an ingress of the snapshot
MapIsSnapshot ==
    (rpc = "listIngresses" /\ rpc' # rpc /\ rerr' = None) =>
        /\ ringmap' = EligibleNames(cluster)
        /\ \A i \in cluster :
              \A k \in DOMAIN ingressChanged(i) :
                  PairName(ingressChanged(i)[k], i.namespace) \in ringmap'
        /\ rtodo' = {api \in rapis : api.name \notin EligibleNames(cluster)}

\* C16: the reaper issues a DELETE for a gateway API only if the API's name
\* was returned by the cycle's gateway list and is absent from the set of
\* expected names built in the same cycle from every (rule, path) pair of
\* every eligible ingress of the snapshot; it never deletes an API whose
\* name the add/update handler derives for an ingress of that snapshot.
\* The join, and the DELETE, are by the API's name, not its id.
C16_ReaperDeletesOnlyUnexpected ==
    /\ []DeletesOnlyOrphans
    /\ [][ListIsGateway]_vars
    /\ [][MapIsSnapshot]_vars

\* a cycle has deleted one API of its gateway list and kept the other, whose
\* name its snapshot expected
C16_Witness ==
    /\ rpc = "sleep" /\ rerr = None
    /\ \E c \in DOMAIN rlog : rlog[c].op = "DELETE" /\ rlog[c].result = "ok"
    /\ \E api \in rapis : api.name \in ringmap /\ api.name \in DOMAIN kong
    /\ Cardinality(rapis) = 2

\* the cycle's gateway list failed
GatewayListFailed ==
    rlog # <<>> /\ rlog[1].op = "GET" /\ rlog[1].path = "/apis"
                /\ rlog[1].result = "error"

\* after a failed gateway list the cycle is over: no call but that one
CycleAborted ==
    GatewayListFailed =>
        /\ Len(rlog) = 1
        /\ rpc = "sleep" /\ rtodo = {}
        /\ rerr = "Failed to get kong api list"

\* the sleeping loop wakes up at its top, from its top it calls
\* reapOrphanedApis, which lists the gateway's APIs: a full cycle begins
LoopGoesOn ==
    /\ (rpc = "sleep" /\ rpc' # rpc) => (rpc' = "top" /\ rlog' = <<>>)
    /\ (rpc = "top" /\ rpc' # rpc) => (rpc' = "getAll" /\ rlog' = <<>>)
    /\ (rpc = "getAll" /\ rpc' # rpc) =>
          /\ Len(rlog') = 1 /\ rlog'[1].op = "GET" /\ rlog'[1].path = "/apis"
          /\ rlog'[1].result = "ok" => rpc' = "listIngresses"

\* C17: if the gateway's list call fails, the reaper's cycle ends without
\* listing the ingresses and without any DELETE (or any other call); the
\* loop does not exit: it sleeps for the resync interval and then begins a
\* full cycle again with the gateway's list call.
C17_GatewayListFailureEndsCycle ==
    /\ []CycleAborted
    /\ [][LoopGoesOn]_vars
    /\ (GatewayListFailed ~> rpc = "top")
    /\ (rpc = "top" ~> rlog # <<>>)

\* the gateway list failed while the gateway held an orphan, and the orphan
\* is still there
C17_Witness ==
    /\ GatewayListFailed /\ rpc = "sleep"
    /\ \E n \in DOMAIN kong : n \notin EligibleNames(cluster)

\* the APIs of the cycle's gateway list that its ingMap does not expect
CycleOrphans == {api \in rapis : api.name \notin ringmap}

\* the cycle has called deleteKongAPI for the API
Attempted(api) ==
    \E c \in DOMAIN rlog : rlog[c].op = "GET" /\ rlog[c].path = api.name

\* both lists of the cycle succeeded
BothListsOk ==
    Len(rlog) >= 2 /\ rlog[1].result = "ok" /\ rlog[2] = ListCall("ok")

\* C23: in a reaper cycle the failure to delete one orphaned API, at its GET
\* or at its DELETE, does not abort the cycle: when the cycle is over, every
\* orphaned API of the cycle's gateway list has been attempted, and the
\* cycle reports no error; while it runs, every orphan is attempted, at
\* hand, or still to come.
C23_DeleteFailureDoesNotAbort ==
    BothListsOk =>
        /\ rerr = None
        /\ rpc = "sleep" => \A api \in CycleOrphans : Attempted(api)
        /\ rpc \in {"delGet", "delDelete"} =>
              \A api \in CycleOrphans : Attempted(api) \/ api \in rtodo

\* a cycle with two orphans is over: a call for one of them failed, the
\* other was deleted afterwards
C23_Witness ==
    /\ BothListsOk /\ rpc = "sleep" /\ Cardinality(CycleOrphans) = 2
    /\ \E c, d \in DOMAIN rlog :
          /\ c < d /\ rlog[c].result = "error"
          /\ rlog[d].op = "DELETE" /\ rlog[d].result = "ok"

\* C25: in every reaper cycle the gateway's API list is read before the
\* cluster's ingress list: the cycle's first call is the gateway list, the
\* cluster list is its second call and is issued only after the gateway
\* list succeeded; every DELETE of the cycle (and every GET that precedes
\* one) is issued after both reads have succeeded.
C25_ListsBeforeDeletes ==
    \A c \in DOMAIN rlog :
        /\ c = 1 <=> (rlog[c].op = "GET" /\ rlog[c].path = "/apis")
        /\ rlog[c].op = "LIST" => (c = 2 /\ rlog[1].result = "ok")
        /\ c > 2 => /\ rlog[c].op \in {"GET", "DELETE"}
                    /\ rlog[1].result = "ok"
                    /\ rlog[2].op = "LIST" /\ rlog[2].result = "ok"

\* a cycle has read the gateway's list, then the cluster's, and then deleted
\* an orphan
C25_Witness ==
    /\ Len(rlog) = 4 /\ AllOk(rlog)
    /\ rlog[1].path = "/apis" /\ rlog[2].op = "LIST"
    /\ rlog[3].op = "GET" /\ rlog[4].op = "DELETE"
    /\ rlog[4].path \notin DOMAIN kong

\* the names the add/update handler reconciles for the ingresses of a
\* cluster: those of the ingresses that pass eligibility and validation
HandlerNames(c) ==
    UNION {{PairName(ingressChanged(i)[k], i.namespace) :
               k \in DOMAIN ingressChanged(i)} : i \in c}

\* the cycle has read the ingress list, and neither the cluster nor the
\* gateway's set of names has grown since the cycle began
ListedUnchanged ==
    /\ rpc \in {"delGet", "delDelete", "sleep"}
    /\ Len(rlog) >= 2 /\ rlog[2] = ListCall("ok")
    /\ ~rdirty

\* C31: the reaper's expected-name set contains exactly the names the
\* add/update handler would reconcile: a name is expected only if it comes
\* from an ingress that passes both the eligibility check and validation, so
\* a gateway API named after a pair of an eligible but unsupported ingress
\* is reaped like any other orphan.
C31_AsStated ==
    /\ ListedUnchanged => ringmap = HandlerNames(cluster)
    /\ (ListedUnchanged /\ CycleCompleted /\ AllOk(rlog)) =>
          \A n \in DOMAIN kong : n \in HandlerNames(cluster)

\* what the code keeps instead: the expected names are those of every
\* ingress that is fair game, supported or not
C31_ExpectedIsFairGame ==
    ListedUnchanged => ringmap = EligibleNames(cluster)

----------------------------------------------------------------------------
(* Properties of the handlers (SpecD). *)

\* the calls the running handler issued for its k-th pair
PairCalls(k) == SelectSeq(dlog, LAMBDA e : e.pair = k)

\* the handler runs for an add or update event / for a delete event
Changing == dev # Nil /\ dev.type \in {"add", "update"}
Deleting == dev # Nil /\ dev.type = "delete"

\* the name, and the desired record, of the k-th pair of the event's ingress
NameOf(k) == PairName(Pairs(dev.obj)[k], dev.obj.namespace)
Desired(k) ==
    LET pair == Pairs(dev.obj)[k]
    IN  [name         |-> NameOf(k),
         upstreamURL  |-> getUpstreamURL(pair.path, dev.obj.namespace),
         hosts        |-> pair.rule.host,
         uris         |-> pair.path.path,
         preserveHost |-> TRUE,
         stripURI     |-> BoolPtr(FALSE)]

\* C3: when the GET of reconcile reports not-found, reconcile issues exactly
\* one POST /apis carrying the full desired record (name, upstreamURL, hosts,
\* uris, preserveHost = true, stripURI = false) and no PATCH, and a
\* successful POST makes reconcile return success.
C3_NotFoundThenOnePost ==
    Changing =>
        \A k \in 1..Len(dres) :
            LET cs == PairCalls(k)
            IN  (cs[1].op = "GET" /\ cs[1].result = "404") =>
                    /\ cs[1].path = NameOf(k)
                    /\ Len(cs) = 2
                    /\ cs[2].op = "POST"
                    /\ cs[2].body = Desired(k)
                    /\ (cs[2].result = "ok" => dres[k] = "ok")

\* a handler has created the API of a pair, and the gateway holds the record
C3_Witness ==
    /\ Changing /\ dpc = "done"
    /\ \E k \in 1..Len(dres) :
          /\ PairCalls(k)[1].result = "404"
          /\ PairCalls(k)[2].result = "ok"
          /\ dres[k] = "ok"
          /\ NameOf(k) \in DOMAIN kong

\* the event's ingress has more than one rule, more than one path in a rule,
\* or a path that is not the root
NotSingleRoot(ingress) ==
    \/ Len(ingress.rules) # 1
    \/ \E k \in 1..Len(ingress.rules) :
          \/ Len(ingress.rules[k].paths) # 1
          \/ \E p \in 1..Len(ingress.rules[k].paths) :
                ingress.rules[k].paths[p].path # "/"

\* C6: an add or update event for an ingress that is ineligible (class
\* annotation present and not the controller's) or fails validation (a
\* default backend) causes no gateway call: the handler returns at once, so
\* it leaves the gateway as it is.  In the simple form the handler has
\* nothing to reconcile either when the event's ingress has a default
\* backend, more than one rule, more than one path, or a non-root path.
C6_IneligibleOrInvalidNoCalls ==
    Changing =>
        /\ (~isEligible(dev.obj) \/ dev.obj.backend) =>
              dlog = <<>> /\ dres = <<>> /\ dpairs = <<>> /\ dpc = "done"
        /\ (dev.obj.backend \/ NotSingleRoot(dev.obj)) =>
              ingressChangedSimple(dev.obj) = <<>>

\* the handler has run for an added ingress with a default backend while the
\* gateway held a stale API under the name of its rule
C6_Witness ==
    /\ dev # Nil /\ dev.type = "add" /\ dev.obj.backend /\ isEligible(dev.obj)
    /\ dpc = "done"
    /\ PairNames(dev.obj) \subseteq DOMAIN kong

\* the calls of the delete handler for the k-th pair are the GET of the
\* pair's name and then, only if the GET succeeded, the DELETE of that name
GetThenDelete(k) ==
    LET cs == PairCalls(k)
    IN  /\ cs[1].op = "GET" /\ cs[1].path = NameOf(k)
        /\ IF cs[1].result = "ok"
           THEN Len(cs) = 2 /\ cs[2].op = "DELETE" /\ cs[2].path = NameOf(k)
           ELSE Len(cs) = 1

\* C7, as stated: a delete event for an eligible ingress causes, for each of
\* its pairs in turn, a GET of the pair's name and then, only if the GET
\* succeeded, a DELETE of that name, and no GET of a name is issued after the
\* DELETE of that name.  A delete event for an ineligible ingress causes no
\* gateway call.
C7_AsStated ==
    Deleting =>
        IF isEligible(dev.obj)
        THEN /\ \A k \in 1..Len(dres) : GetThenDelete(k)
             /\ \A i, j \in 1..Len(dlog) :
                  i < j => /\ dlog[i].pair <= dlog[j].pair
                           /\ ~(dlog[i].op = "DELETE" /\ dlog[j].op = "GET"
                                  /\ dlog[j].path = dlog[i].path)
             /\ (dpc = "done" => Len(dres) = Len(Pairs(dev.obj)))
        ELSE dlog = <<>> /\ dpc = "done"

\* C7, amended: a delete event for an eligible ingress causes, for each of
\* its pairs in turn, a GET of the pair's name and then, only if the GET
\* succeeded, a DELETE of that name; nothing follows the DELETE for that
\* pair.  A GET of a name after the DELETE of that name is issued exactly
\* when a later pair of the ingress derives the same name: it is that pair's
\* own first call.  A delete event for an ineligible ingress causes no
\* gateway call.
C7_GetThenDeletePerPair ==
    Deleting =>
        IF isEligible(dev.obj)
        THEN /\ \A k \in 1..Len(dres) : GetThenDelete(k)
             /\ \A i, j \in 1..Len(dlog) :
                  i < j => /\ dlog[i].pair <= dlog[j].pair
                           /\ (dlog[i].op = "DELETE" /\ dlog[j].op = "GET"
                                 /\ dlog[j].path = dlog[i].path)
                                   => /\ dlog[i].pair < dlog[j].pair
                                      /\ NameOf(dlog[j].pair) = NameOf(dlog[i].pair)
                                      /\ dlog[j] = PairCalls(dlog[j].pair)[1]
             /\ \A k, m \in 1..Len(dres) :
                  (k < m /\ NameOf(k) = NameOf(m) /\ Len(PairCalls(k)) = 2)
                      => \E i, j \in 1..Len(dlog) :
                            /\ i < j
                            /\ dlog[i].pair = k /\ dlog[i].op = "DELETE"
                            /\ dlog[j].pair = m /\ dlog[j].op = "GET"
                            /\ dlog[j].path = dlog[i].path
             /\ (dpc = "done" => Len(dres) = Len(Pairs(dev.obj)))
        ELSE dlog = <<>> /\ dpc = "done"

\* the delete handler has run for an ingress whose two pairs derive one
\* name: the first pair's GET and DELETE succeeded, and the second pair's GET
\* of the same name followed and found nothing
C7_Witness ==
    /\ Deleting /\ dpc = "done" /\ isEligible(dev.obj)
    /\ Len(dlog) = 3
    /\ dlog[2].op = "DELETE" /\ dlog[2].result = "ok" /\ dlog[2].pair = 1
    /\ dlog[3].op = "GET" /\ dlog[3].path = dlog[2].path /\ dlog[3].pair = 2
    /\ dlog[3].result = "404"

\* "http://{serviceName}.{namespace}:{servicePort}" for the backends of the
\* model, the port written out
UpstreamOf(backend, namespace) ==
    "http://" \o backend.serviceName \o "." \o namespace \o ":" \o
        (CASE backend.servicePort = IntPort(80)        -> "80"
           [] backend.servicePort = IntPort(8080)      -> "8080"
           [] backend.servicePort = NamedPort("http")  -> "http")

\* the upstream of the backend of the pair a call was issued for
OwnUpstream(call) ==
    UpstreamOf(Pairs(dev.obj)[call.pair].path.backend, dev.obj.namespace)

\* the call after the c-th is the PATCH of the upstream URL, or it is the
\* handler's next step
PatchesUpstreamNext(c) ==
    IF c = Len(dlog) THEN dpc = "upstreamURL"
    ELSE /\ dlog[c + 1].op = "PATCH" /\ dlog[c + 1].pair = dlog[c].pair
         /\ "upstreamURL" \in DOMAIN dlog[c + 1].body

C22_ErrorsDoNotStopTheLoop ==
    (dev # Nil /\ HandlerPairs(dev) # <<>>) =>
        /\ dpc = "done" =>
              /\ Len(dres) = Len(Pairs(dev.obj))
              /\ \A k \in 1..Len(Pairs(dev.obj)) :
                    /\ PairCalls(k) # <<>>
                    /\ PairCalls(k)[1].op = "GET"
                    /\ PairCalls(k)[1].path = NameOf(k)
        /\ (dpc # "done" /\ dres # <<>> /\ dres[Len(dres)] = "error") =>
              /\ PairIndex = IF dpc = "tls" THEN Len(dres) ELSE Len(dres) + 1
              /\ PairIndex <= Len(Pairs(dev.obj))
              /\ dpairs = SubSeq(Pairs(dev.obj), PairIndex, Len(Pairs(dev.obj)))

\* the add/update handler has run for an ingress with two pairs: the
\* reconcile of the first failed, the second created its API
C22_Witness ==
    /\ Changing /\ dpc = "done" /\ dev.obj = WebA
    /\ dres = <<"error", "ok">>
    /\ PairCalls(2)[Len(PairCalls(2))].op = "POST"
    /\ NameOf(2) \in DOMAIN kong

----------------------------------------------------------------------------
(* Properties of deleteKongAPI called twice in a row (SpecDel). *)

TwiceName == PairName(Pairs(Twice)[1], Twice.namespace)

\* both calls of deleteKongAPI have returned, the first found the API, and
\* the gateway answered every call of the two
DeletedTwice ==
    /\ Deleting /\ dev.obj = Twice /\ Len(dres) = 2
    /\ dlog[1].op = "GET" /\ dlog[1].result = "ok"
    /\ \A k \in 1..Len(dlog) : dlog[k].result # "error"

\* the result of the two calls: success, then the not-found error with no
\* DELETE issued
SuccessThenNotFound ==
    DeletedTwice =>
        /\ dres = <<"ok", "error">>
        /\ Len(dlog) = 3
        /\ dlog[2].op = "DELETE" /\ dlog[2].path = TwiceName /\ dlog[2].result = "ok"
        /\ dlog[3].op = "GET" /\ dlog[3].path = TwiceName /\ dlog[3].result = "404"
        /\ TwiceName \notin DOMAIN kong

\* a step leaves every API but n as it is, and the whole gateway once the
\* first call has returned success
OnlyNAffected ==
    /\ \A m \in Names \ {TwiceName} :
            /\ m \in DOMAIN kong <=> m \in DOMAIN kong'
            /\ m \in DOMAIN kong => kong'[m] = kong[m]
    /\ (Deleting /\ Len(dres) >= 1 /\ dres[1] = "ok") => kong' = kong

\* C8: deleteKongAPI(n) called twice in a row on a gateway that holds n (and
\* answers) returns success the first time and the not-found error the second
\* time; the second call issues no DELETE and changes nothing on the gateway,
\* and neither call affects an API other than n.
C8_DeleteTwice == []SuccessThenNotFound /\ [][OnlyNAffected]_vars

\* both calls have returned while the gateway holds another API
C8_Witness ==
    /\ DeletedTwice /\ dpc = "done"
    /\ dres = <<"ok", "error">>
    /\ \E m \in Names \ {TwiceName} : m \in DOMAIN kong

----------------------------------------------------------------------------
(* Properties of reconcileAPI on an existing record (SpecP, SpecQ). *)

\* drift of a field of the record from the desired record of the k-th pair,
\* as the specification defines it field by field
SpecDrift(field, api, k) ==
    CASE field = "upstreamURL"  -> api.upstreamURL # Desired(k).upstreamURL
      [] field = "hosts"        -> api.hosts.elems # <<Desired(k).hosts>>
      [] field = "preserveHost" -> ~api.preserveHost
      [] field = "stripURI"     -> api.stripURI # BoolPtr(FALSE)
      [] field = "uris"         -> \/ api.uris.elems = <<>>
                                   \/ Head(api.uris.elems) # Desired(k).uris

FieldNames == {"upstreamURL", "hosts", "preserveHost", "stripURI", "uris"}

\* the calls for the k-th pair that write the field
WritesOf(field, k) ==
    {j \in 2..Len(PairCalls(k)) : field \in DOMAIN PairCalls(k)[j].body}

\* every write after the GET is a PATCH of the record's id and one drifted
\* field, set to its desired value; no field is written twice
OnlyDriftPatched(k) ==
    LET cs  == PairCalls(k)
        api == cs[1].reply
    IN  /\ \A j \in 2..Len(cs) :
              /\ cs[j].op = "PATCH"
              /\ \E f \in FieldNames :
                    /\ DOMAIN cs[j].body = {"id", f}
                    /\ cs[j].body.id = api.id
                    /\ cs[j].body[f] = Desired(k)[f]
                    /\ SpecDrift(f, api, k)
        /\ \A f \in FieldNames : Cardinality(WritesOf(f, k)) <= 1

\* reconciles of the running add/update handler that have returned and whose
\* GET returned a record
Compared == {k \in 1..Len(dres) : PairCalls(k)[1].result = "ok"}

\* the reconciles of the running add/update handler, returned or not, whose
\* GET returned a record
Comparing ==
    {k \in 1..Len(Pairs(dev.obj)) :
        PairCalls(k) # <<>> /\ PairCalls(k)[1].result = "ok"}

\* the reconciles of the running handler that found a record and are over:
\* they have returned, or the goroutine has panicked in them
Over ==
    {k \in Comparing : k \in 1..Len(dres) \/ (dpc = "panic" /\ k = PairIndex)}

\* reconcile came as far as the comparison of the field: every PATCH of an
\* earlier field succeeded, and no null stripURI was dereferenced on the way
Reached(field, k) ==
    /\ \A g \in 1..(FieldIndex(field) - 1) :
          \A j \in WritesOf(Fields[g], k) : PairCalls(k)[j].result = "ok"
    /\ FieldIndex(field) >= FieldIndex("stripURI")
          => ~PairCalls(k)[1].reply.stripURI.nil

\* C4, as stated: when the GET returns a record, a PATCH is issued for a
\* field if and only if the field drifts; each PATCH carries the id and that
\* field only, no POST is issued, matching fields are never written.
C4_AsStated ==
    Changing =>
        \A k \in Compared :
            /\ OnlyDriftPatched(k)
            /\ \A f \in FieldNames :
                  SpecDrift(f, PairCalls(k)[1].reply, k) => WritesOf(f, k) # {}

\* C4, amended: when the GET returns a record, a PATCH is issued for a field
\* if and only if the field drifts and reconcile comes as far as the field's
\* comparison, that is, unless the PATCH of an earlier field of the same
\* reconcile has failed (reconcile then returns the error and leaves the
\* remaining fields alone) or, for stripURI and uris, the record's stripURI
\* is null (reconcile crashes on it, with no error returned and these two
\* fields unpatched); each PATCH carries the id and that field only, no POST
\* is issued, matching fields are never written.  If a single field of a
\* record with a stripURI drifts, exactly one PATCH is sent.  A reconcile
\* that returns does so with success exactly if every call succeeded.
C4_PatchIffDriftWhereReached ==
    Changing =>
        \A k \in Over :
            LET cs  == PairCalls(k)
                api == cs[1].reply
            IN  /\ OnlyDriftPatched(k)
                /\ \A j \in 2..Len(cs) - 1 : cs[j].result = "ok"
                /\ \A f \in FieldNames :
                      WritesOf(f, k) # {}
                          <=> (SpecDrift(f, api, k) /\ Reached(f, k))
                /\ \A f \in FieldNames :
                      (/\ ~api.stripURI.nil
                       /\ \A g \in FieldNames : SpecDrift(g, api, k) <=> g = f)
                          => Len(cs) = 2 /\ WritesOf(f, k) = {2}
                /\ k \in 1..Len(dres) => (dres[k] = "ok" <=> AllOk(cs))
                /\ k \notin 1..Len(dres) => (api.stripURI.nil /\ AllOk(cs))

\* a reconcile has patched the hosts and the uris of a record, and nothing
\* else, the other three fields agreeing with the pair
C4_Witness ==
    /\ Changing /\ dpc = "done"
    /\ \E k \in Compared :
          /\ AllOk(PairCalls(k)) /\ Len(PairCalls(k)) = 3
          /\ WritesOf("hosts", k) = {2} /\ WritesOf("uris", k) = {3}

\* the record agrees with the desired record of the k-th pair (I1)
SatisfiesI1(api, k) ==
    /\ api.upstreamURL = Desired(k).upstreamURL
    /\ api.hosts = Slice(<<Desired(k).hosts>>)
    /\ api.preserveHost = TRUE
    /\ api.uris = Slice(<<Desired(k).uris>>)
    /\ api.stripURI = BoolPtr(FALSE)

\* C5: starting from any record under the pair's name, or none, a successful
\* reconcile with nothing else changing the cluster or the gateway leaves a
\* record with the desired upstreamURL, hosts = [host], preserveHost = true,
\* uris = [path] and stripURI = false; and a reconcile that finds such a
\* record emits no PATCH and no POST.
C5_AsStated ==
    Changing =>
        \A k \in 1..Len(dres) :
            LET cs == PairCalls(k)
            IN  /\ dres[k] = "ok" =>
                      /\ NameOf(k) \in DOMAIN kong
                      /\ SatisfiesI1(kong[NameOf(k)], k)
                /\ (cs[1].result = "ok" /\ SatisfiesI1(cs[1].reply, k)) =>
                      Len(cs) = 1

\* the same, for the reconciles whose GET found no record or a record whose
\* uris list holds at most one element
C5_ExceptExtraUris ==
    Changing =>
        \A k \in 1..Len(dres) :
            LET cs == PairCalls(k)
            IN  (cs[1].result = "404" \/
                 (cs[1].result = "ok" /\ Len(cs[1].reply.uris.elems) <= 1)) =>
                    /\ dres[k] = "ok" =>
                          /\ NameOf(k) \in DOMAIN kong
                          /\ SatisfiesI1(kong[NameOf(k)], k)
                    /\ (cs[1].result = "ok" /\ SatisfiesI1(cs[1].reply, k)) =>
                          Len(cs) = 1

\* the calls of the k-th reconcile that are POSTs
PostsOf(k) == {j \in 1..Len(PairCalls(k)) : PairCalls(k)[j].op = "POST"}

\* a reconcile that has returned issued a POST exactly when its GET reported
\* not-found; one whose GET failed otherwise issued no other call and
\* returned the error
CreatesIffNotFound ==
    Changing =>
        /\ \A k \in 1..Len(dres) :
              LET cs == PairCalls(k)
              IN  /\ cs[1].op = "GET"
                  /\ PostsOf(k) # {} <=> cs[1].result = "404"
                  /\ cs[1].result = "error" => Len(cs) = 1 /\ dres[k] = "error"
        /\ dpc = "post" =>
              /\ dlog[Len(dlog)].op = "GET" /\ dlog[Len(dlog)].result = "404"
              /\ dlog[Len(dlog)].pair = PairIndex
        /\ dpc \in FieldNames =>
              /\ PairCalls(PairIndex)[1].result = "ok"
              /\ PostsOf(PairIndex) = {}

\* the GET leaves the gateway as it is
GetWritesNothing == dpc = "get" => kong' = kong

\* C18: reconcile attempts the creation exactly when its GET reports
\* not-found; if the GET fails for any other reason (no response, or an
\* error status other than 404), reconcile issues no POST and no PATCH,
\* leaves the gateway as it is, and returns the error.
C18_CreateOnlyOnNotFound ==
    /\ []CreatesIffNotFound
    /\ [][GetWritesNothing]_vars

\* a reconcile has returned the error of its GET, the gateway being down and
\* holding, under the pair's name, a record that drifts
C18_Witness ==
    /\ Changing /\ dpc = "done"
    /\ dres = <<"error">> /\ Len(dlog) = 1 /\ dlog[1].result = "error"
    /\ ~kongUp
    /\ NameOf(1) \in DOMAIN kong /\ ~SatisfiesI1(kong[NameOf(1)], 1)

\* the PATCHes of the k-th reconcile that failed
FailedPatches(k) ==
    {j \in 1..Len(PairCalls(k)) :
        PairCalls(k)[j].op = "PATCH" /\ PairCalls(k)[j].result # "ok"}

\* the fields that come after the field of the j-th call of the k-th
\* reconcile in the comparison order
LaterFields(k, j) ==
    {Fields[g] : g \in {h \in 1..Len(Fields) :
        \E f \in 1..(h - 1) : Fields[f] \in DOMAIN PairCalls(k)[j].body}}

\* C19: when a PATCH fails during reconcile, reconcile returns the error at
\* once: the failed PATCH is its last call (no field later in the comparison
\* order is patched, drifting or not, and nothing is retried), and the
\* PATCHes applied before it for earlier fields stay applied.
C19_PatchFailureStops ==
    Changing =>
        /\ \A k \in 1..Len(dres) :
              \A j \in FailedPatches(k) :
                  /\ j = Len(PairCalls(k))
                  /\ dres[k] = "error"
                  /\ \A f \in LaterFields(k, j) : WritesOf(f, k) = {}
                  /\ \A f \in FieldNames : \A i \in WritesOf(f, k) \ {j} :
                        /\ PairCalls(k)[i].result = "ok"
                        /\ ~SpecDrift(f, kong[NameOf(k)], k)
        /\ FailedPatches(PairIndex) # {} => dpc \notin FieldNames \cup {"post", "get"}

\* a reconcile has returned the error of its second PATCH: the upstream URL
\* is repaired, the hosts and the uris still drift
C19_Witness ==
    /\ Changing /\ dpc = "done" /\ dres = <<"error">>
    /\ Len(dlog) = 3 /\ FailedPatches(1) = {3}
    /\ WritesOf("upstreamURL", 1) = {2} /\ WritesOf("hosts", 1) = {3}
    /\ kong[NameOf(1)].upstreamURL = "http://svc2.ns:8080"
    /\ SpecDrift("hosts", kong[NameOf(1)], 1)
    /\ SpecDrift("uris", kong[NameOf(1)], 1)

----------------------------------------------------------------------------
(* Properties of reconcileAPI under another writer (SpecG). *)

\* the place, in the comparison order, of the field a PATCH writes
FieldOf(call) ==
    CHOOSE g \in 1..Len(Fields) : Fields[g] \in DOMAIN call.body

\* the k-th reconcile has come to its end without a failed call
Finished(k) == k \in 1..Len(dres) /\ AllOk(PairCalls(k))

\* C20: within one reconcile of an existing record exactly one GET is
\* issued, and every drift decision is taken against the record that GET
\* returned, whatever happens to the record on the gateway meanwhile: a
\* field is patched only if it drifts in that record, and, when no call
\* fails, every field that drifts in it is patched.  The PATCHes come in
\* the order upstreamURL, hosts, preserveHost, stripURI, uris, at most one
\* per field, so at most five writes.
C20_OneGetOrderedPatches ==
    Changing =>
        \A k \in Comparing :
            LET cs == PairCalls(k)
            IN  /\ cs[1].op = "GET"
                /\ \A j \in 2..Len(cs) : cs[j].op = "PATCH"
                /\ OnlyDriftPatched(k)
                /\ \A i, j \in 2..Len(cs) : i < j => FieldOf(cs[i]) < FieldOf(cs[j])
                /\ Len(cs) <= 1 + Len(Fields)
                /\ Len(Fields) = 5
                /\ Finished(k) =>
                      \A f \in FieldNames :
                          SpecDrift(f, cs[1].reply, k) <=> WritesOf(f, k) # {}

\* a reconcile has issued its GET and five PATCHes in the order of the
\* fields; somebody else changed the record meanwhile, so that the gateway
\* holds a record that drifts although the reconcile succeeded
C20_Witness ==
    /\ Changing /\ dpc = "done" /\ dres = <<"ok">>
    /\ Len(dlog) = 6 /\ AllOk(dlog)
    /\ \A j \in 2..6 : FieldOf(dlog[j]) = j - 1
    /\ \E f \in FieldNames : SpecDrift(f, kong[NameOf(1)], 1)

----------------------------------------------------------------------------
(* Properties of the controller across gateway outages (SpecO). *)

\* the handler runs for a resync of an eligible, supported ingress
Resyncing ==
    /\ dev # Nil /\ dev.type = "update" /\ dev.old = dev.obj
    /\ isEligible(dev.obj) /\ ~dev.obj.backend

\* the gateway answered every call of the log
Answered(log) == \A j \in 1..Len(log) : log[j].result # "error"

\* no goroutine has panicked and Run has not returned; a resync issues the
\* GET of every pair of the ingress, in turn, whatever happened before, and
\* a reconcile the gateway answers returns success and leaves the record
\* agreeing with the pair
SurvivesOutage ==
    /\ dpc # "panic" /\ rpc # "panic" /\ run = "waiting" /\ ctx = "live"
    /\ Resyncing =>
          /\ \A k \in 1..Len(dres) :
                LET cs == PairCalls(k)
                IN  /\ cs[1].op = "GET" /\ cs[1].path = NameOf(k)
                    /\ Answered(cs) =>
                          /\ dres[k] = "ok"
                          /\ NameOf(k) \in DOMAIN kong
                          /\ SatisfiesI1(kong[NameOf(k)], k)
          /\ dpc = "done" => Len(dres) = Len(Pairs(dev.obj))

\* the ingress store changes only when a user of the cluster changes it
StoreUntouched == cluster' # cluster => changes' = changes + 1

\* C9: while the gateway fails every call (5xx, or no response at all) no
\* handler and no reaper cycle panics or ends the controller, and the
\* controller does not modify the ingress store; once the gateway answers
\* again, the next resync issues GET /apis/{name} for every pair of every
\* eligible ingress and reconciles: each reconcile returns success and
\* leaves the record agreeing with its pair.
C9_DisconnectedSafety == []SurvivesOutage /\ [][StoreUntouched]_vars

\* a reaper cycle has failed on the gateway list, the reaper still sleeps,
\* and a resync begun since has reconciled both pairs, one by a POST and one
\* by PATCHes
C9_Witness ==
    /\ rpc = "sleep" /\ rerr = "Failed to get kong api list"
    /\ Resyncing /\ dpc = "done" /\ dres = <<"ok", "ok">>
    /\ \E j \in 1..Len(dlog) : dlog[j].op = "POST"
    /\ \E j \in 1..Len(dlog) : dlog[j].op = "PATCH"
    /\ kongUp

----------------------------------------------------------------------------
(* Eventual convergence (FairSpec). *)

\* the (ingress, pair) couples of the eligible, supported ingresses
Owned ==
    {<<i, k>> : i \in {j \in cluster : isEligible(j) /\ ~j.backend},
                k \in 1..2} \cap
    {ik \in cluster \X (1..2) : ik[2] <= Len(Pairs(ik[1]))}

\* the record agrees with the pair of the ingress (I1)
Agrees(api, ingress, pair) ==
    /\ api.upstreamURL = getUpstreamURL(pair.path, ingress.namespace)
    /\ api.hosts = Slice(<<pair.rule.host>>)
    /\ api.preserveHost = TRUE
    /\ api.uris = Slice(<<pair.path.path>>)
    /\ api.stripURI = BoolPtr(FALSE)

\* the gateway holds an API agreeing with every pair of every eligible,
\* supported ingress and no API under any other name
Converged ==
    /\ \A ik \in Owned :
          LET pair == Pairs(ik[1])[ik[2]]
              name == PairName(pair, ik[1].namespace)
          IN  name \in DOMAIN kong /\ Agrees(kong[name], ik[1], pair)
    /\ \A n \in DOMAIN kong :
          \E ik \in Owned : n = PairName(Pairs(ik[1])[ik[2]], ik[1].namespace)

\* C10: if from some point on the cluster's ingress set does not change (it
\* changes finitely often in every behaviour) and every gateway call
\* succeeds then, under fair scheduling of the resync and
\* the reaper, the gateway eventually holds one API satisfying I1 for every
\* pair of every eligible supported ingress and no API under any other name,
\* and stays so.
C10_AsStated == <>[]kongUp => <>[]Converged

\* the same, but for the APIs under the names of eligible ingresses that are
\* not supported: the reaper counts those names as expected
ConvergedButUnsupported ==
    /\ \A ik \in Owned :
          LET pair == Pairs(ik[1])[ik[2]]
              name == PairName(pair, ik[1].namespace)
          IN  name \in DOMAIN kong /\ Agrees(kong[name], ik[1], pair)
    /\ \A n \in DOMAIN kong : n \in EligibleNames(cluster)

C10_ExceptUnsupported == <>[]kongUp => <>[]ConvergedButUnsupported

----------------------------------------------------------------------------
(* Properties of ingressIsFairGame (SpecE). *)

\* the handler at hand returned without a call and without a pair to work on
ReturnedEarly == dpc = "done" /\ dlog = <<>> /\ dres = <<>>

\* C11: the eligibility test is true if and only if the ingress-class
\* annotation is absent or equals "kong"; it is false for every other present
\* value, the empty string included; it depends on nothing but the
\* annotation (two ingresses with the same annotation get the same decision,
\* whatever their names, backends and rules), and it decides the same on
\* every delivery of the same ingress: the delete handler returns early
\* exactly for the ingresses that are not eligible, the add/update handler
\* exactly for those and for the unsupported ones.
C11_FairGameIffAbsentOrKong ==
    dev # Nil =>
      /\ ingressIsFairGame(dev.obj) = isEligible(dev.obj)
      /\ dev.obj.class \in {"", "nginx", "Kong"} => ~ingressIsFairGame(dev.obj)
      /\ \A j \in ClassUniverse :
            j.class = dev.obj.class
              => ingressIsFairGame(j) = ingressIsFairGame(dev.obj)
      /\ Deleting /\ dpc = "done" => (ReturnedEarly <=> ~isEligible(dev.obj))
      /\ Changing /\ dpc = "done"
            => (ReturnedEarly <=> ~isEligible(dev.obj) \/ dev.obj.backend)

\* the delete handler returned early for an ingress whose annotation is
\* present and empty
C11_Witness ==
    /\ Deleting /\ ReturnedEarly
    /\ dev.obj.class = ""

----------------------------------------------------------------------------
(* Properties of the names (SpecN). *)

\* the inputs of the composite name of the k-th pair of an ingress
NameInputs(ingress, k) ==
    <<Pairs(ingress)[k].rule.host, Pairs(ingress)[k].path.path, ingress.namespace>>

\* the same, with the path replaced by its checksum
HashedInputs(ingress, k) ==
    <<Pairs(ingress)[k].rule.host, hashString(Pairs(ingress)[k].path.path),
      ingress.namespace>>

\* every call of the handler at hand went to the name of its pair
NameConstant ==
    \A c \in DOMAIN dlog :
        dlog[c].op = "GET" => dlog[c].path = NameOf(dlog[c].pair)

\* the simple form's name tells the ingresses of the cluster apart
SimpleInjective ==
    \A j \in cluster :
        getQualifiedName(j) = getQualifiedName(dev.obj)
          => j.name = dev.obj.name /\ j.namespace = dev.obj.namespace

\* C12: the name of a (rule, path) pair is the same in every call, and the
\* pairs of two different ingresses get the same name only if they agree on
\* the name's inputs: host, path and namespace in the composite form,
\* ingress name and namespace in the simple form.
C12_AsStated ==
    Changing /\ dlog # <<>> =>
      /\ NameConstant
      /\ SimpleInjective
      /\ \A j \in cluster \ {dev.obj} :
           \A k \in DOMAIN Pairs(dev.obj), l \in DOMAIN Pairs(j) :
               PairName(Pairs(dev.obj)[k], dev.obj.namespace)
                   = PairName(Pairs(j)[l], j.namespace)
                 => NameInputs(dev.obj, k) = NameInputs(j, l)

\* The same with the path replaced by its checksum: the name is constant,
\* and it is injective on host, hashString(path) and namespace.
C12_ExceptHashCollisions ==
    Changing /\ dlog # <<>> =>
      /\ NameConstant
      /\ SimpleInjective
      /\ \A j \in cluster \ {dev.obj} :
           \A k \in DOMAIN Pairs(dev.obj), l \in DOMAIN Pairs(j) :
               PairName(Pairs(dev.obj)[k], dev.obj.namespace)
                   = PairName(Pairs(j)[l], j.namespace)
                 <=> HashedInputs(dev.obj, k) = HashedInputs(j, l)

----------------------------------------------------------------------------
(* Properties of redelivered events (SpecI). *)

\* the handler runs for the second of the two events
SecondRun == Changing /\ queue = <<>>

\* the first GET of the running handler for a name
FirstGet(n) ==
    CHOOSE c \in DOMAIN dlog :
        /\ dlog[c].op = "GET" /\ dlog[c].path = n
        /\ \A d \in 1..(c - 1) : ~(dlog[d].op = "GET" /\ dlog[d].path = n)

\* the second run is over, and the gateway holds under every name of the
\* ingress the record the run found there
SameAsAfterOnce ==
    SecondRun /\ dpc = "done" =>
        \A n \in PairNames(dev.obj) :
            ingressChanged(dev.obj) # <<>> =>
                /\ dlog[FirstGet(n)].result = "ok"
                /\ n \in DOMAIN kong
                /\ kong[n] = dlog[FirstGet(n)].reply

\* a delivered update event starts the handler as the add event for its new
\* object does, whatever the old object
UpdateIsAdd ==
    (dev' # dev /\ dev' # Nil /\ dev'.type = "update") =>
        /\ dpairs' = ingressChanged(dev'.obj)
        /\ dpc' = IF ingressChanged(dev'.obj) = <<>> THEN "done" ELSE "get"
        /\ dapi' = Nil /\ dlog' = <<>> /\ dres' = <<>>
        /\ kong' = kong

\* the handlers write under the names of the delivered object only
OnlyOwnNames ==
    \A n \in (DOMAIN kong \cup DOMAIN kong') \ PairNames(dev.obj) :
        n \in DOMAIN kong /\ n \in DOMAIN kong' /\ kong'[n] = kong[n]

\* C14: an update event update(old, new) has the effect of add(new) for
\* every old: it starts the handler on the pairs of new exactly as add(new)
\* does, and the handler writes under the names of new only.  Processing
\* the same ingress twice in a row, by add or update events, with every
\* gateway call succeeding and no other change in between, leaves the
\* gateway as the first processing left it.
C14_UpdateIsAddAndIdempotent ==
    /\ []SameAsAfterOnce
    /\ [][UpdateIsAdd]_vars
    /\ [][kong' # kong => OnlyOwnNames]_vars

\* the second processing is over: an update, from another object, to the
\* ingress with two paths, found both records as the first processing had
\* created them
C14_Witness ==
    /\ SecondRun /\ dpc = "done"
    /\ dev.type = "update" /\ dev.old = WebB /\ dev.obj = WebA
    /\ Len(dlog) = 2 /\ AllOk(dlog)
    /\ \A k \in {1, 2} : Agrees(kong[NameOf(k)], WebA, Pairs(WebA)[k])

----------------------------------------------------------------------------
(* Properties of Run (FairRun). *)

RunReturned == run \notin {"start", "waiting"}

\* Run has returned only if the context is done, and then with its error
ReturnsCancellation ==
    RunReturned =>
        \/ ctx = "canceled" /\ run = "context canceled"
        \/ ctx = "deadline" /\ run = "context deadline exceeded"

\* C15: Run does not return before the context is cancelled, whatever
\* errors the gateway or the cluster's list call produce; once the context
\* is cancelled Run returns, and what it returns is the context's
\* cancellation error.
C15_RunReturnsOnCancel ==
    /\ []ReturnsCancellation
    /\ [][run' # run /\ run' # "waiting" => ctx # "live"]_vars
    /\ (ctx # "live") ~> RunReturned

\* Run has returned the cancellation error after a reaper cycle that ended
\* with an error while the gateway was down
C15_Witness ==
    /\ run = "context canceled"
    /\ ~kongUp /\ rerr # None

----------------------------------------------------------------------------
(* Properties of the comparisons of reconcileAPI (SpecQ). *)

\* drift of a field of the returned record, in the words of the claim
StatedDrift(field, api, k) ==
    CASE field = "hosts" ->
            \/ Len(api.hosts.elems) # 1
            \/ Head(api.hosts.elems) # Pairs(dev.obj)[k].rule.host
      [] field = "uris" ->
            \/ api.uris.nil \/ api.uris.elems = <<>>
            \/ Head(api.uris.elems) # Pairs(dev.obj)[k].path.path
      [] field = "preserveHost" -> api.preserveHost # TRUE
      [] field = "stripURI" -> api.stripURI # BoolPtr(FALSE)

StatedFields == {"hosts", "uris", "preserveHost", "stripURI"}

\* C21, as stated: a hosts PATCH is issued iff the returned hosts list does
\* not have length 1 or its first element differs from the desired host; a
\* uris PATCH iff the returned uris list is null, empty, or its first
\* element differs from the path; preserveHost is patched iff it is not
\* true and stripURI iff it is not false.
C21_AsStated ==
    Changing =>
        \A k \in Over : k \in 1..Len(dres) =>
            \A f \in StatedFields :
                WritesOf(f, k) # {} <=> StatedDrift(f, PairCalls(k)[1].reply, k)

\* C21, amended: the same predicates decide the PATCH of each field whenever
\* reconcile comes as far as the field's comparison, that is, unless the
\* PATCH of an earlier field failed (reconcile then returns the error) or,
\* for stripURI and uris, the record's stripURI is null (reconcile crashes
\* on it).
C21_DriftPredicatesWhereReached ==
    Changing =>
        \A k \in Over :
            \A f \in StatedFields :
                WritesOf(f, k) # {}
                    <=> (StatedDrift(f, PairCalls(k)[1].reply, k) /\ Reached(f, k))

\* a reconcile has patched a hosts list of two elements that begins with the
\* desired host, and a null uris list, and nothing else
C21_Witness ==
    /\ Changing /\ dpc = "done" /\ dres = <<"ok">>
    /\ dlog[1].result = "ok"
    /\ dlog[1].reply.hosts = Slice(<<"a", "b">>) /\ dlog[1].reply.uris = NilSlice
    /\ Len(dlog) = 3
    /\ WritesOf("hosts", 1) = {2} /\ WritesOf("uris", 1) = {3}

\* an empty or null list of the record the GET returned
Missing(list) == list.nil \/ list.elems = <<>>

\* the reconcile the handler runs has ended
ReconcileOver == dpc \in {"done", "panic"} /\ dlog # <<>> /\ dlog[1].result = "ok"

\* C32: reconcile of an existing gateway record completes without crashing
\* for every record the gateway can return, including a record whose
\* stripURI is null and a record whose hosts or uris list is null or empty;
\* in each case reconcile either patches the field to its desired value or
\* returns an error value.
C32_AsStated ==
    (Changing /\ ReconcileOver) =>
        LET found == dlog[1].reply
        IN  /\ dpc # "panic"
            /\ (Missing(found.hosts) /\ dres # <<"error">>) =>
                  kong[NameOf(1)].hosts = Slice(<<Desired(1).hosts>>)
            /\ (Missing(found.uris) /\ dres # <<"error">>) =>
                  kong[NameOf(1)].uris = Slice(<<Desired(1).uris>>)
            /\ (found.stripURI.nil /\ dres # <<"error">>) =>
                  kong[NameOf(1)].stripURI = BoolPtr(FALSE)

\* the same for the records whose stripURI is not null: no crash, and a
\* null or empty hosts or uris list is patched unless an error is returned;
\* and the crash on a null stripURI comes after the earlier PATCHes
C32_ExceptNullStripURI ==
    (Changing /\ ReconcileOver) =>
        LET found == dlog[1].reply
        IN  /\ dpc = "panic" <=>
                  /\ found.stripURI.nil
                  /\ \A j \in 1..Len(dlog) : dlog[j].result = "ok"
            /\ (~found.stripURI.nil /\ Missing(found.hosts)
                    /\ dres # <<"error">>) =>
                  kong[NameOf(1)].hosts = Slice(<<Desired(1).hosts>>)
            /\ (~found.stripURI.nil /\ Missing(found.uris)
                    /\ dres # <<"error">>) =>
                  kong[NameOf(1)].uris = Slice(<<Desired(1).uris>>)

----------------------------------------------------------------------------
(* Properties of apiReaper's loop (FairReap). *)

\* a cycle begins: the step from the top of the loop into reapOrphanedApis,
\* whose first statement is the gateway's list call
CycleBegins == rpc = "top" /\ rpc' = "getAll"

\* a cycle begins only at the top of the loop and only while the context is
\* not done, and the gateway's list call is issued only by a cycle so begun;
\* the goroutine returns only from the top of the loop and only when the
\* context is done; its first position is the top of the loop, not the sleep
TopOfLoop ==
    /\ CycleBegins => ctx = "live"
    /\ (rpc' = "getAll" /\ rpc # "getAll") => CycleBegins
    /\ (rlog' # rlog /\ rlog' # <<>> /\ Len(rlog') = 1) => rpc = "getAll"
    /\ (rpc' = "exited" /\ rpc # "exited") => (rpc = "top" /\ ctx # "live")
    /\ (rpc = "unstarted" /\ rpc' # rpc) => rpc' = "top"
    /\ (rpc = "top" /\ rpc' # rpc /\ ctx = "live") => CycleBegins

\* C24: the reaper checks cancellation at the top of every cycle: once the
\* context is cancelled no new cycle is started (the iteration that observes
\* the cancellation issues no gateway list call), and the goroutine
\* eventually returns; its first cycle begins at start-up without a sleep
\* before it.
C24_ReaperStopsOnCancel ==
    /\ [][TopOfLoop]_vars
    /\ (ctx # "live") ~> (rpc = "exited")

\* the reaper has returned on the cancellation while the gateway is down and
\* still holds the orphan
C24_Witness ==
    /\ rpc = "exited" /\ ctx = "canceled"
    /\ ~kongUp /\ OrphanName \in DOMAIN kong

----------------------------------------------------------------------------
(* Properties of an update that drops a name (SpecU). *)

\* the names of the ingress before the update that no eligible ingress of
\* the cluster derives any more
DroppedNames == PairNames(WebA) \ EligibleNames(cluster)

\* the add/update handler issues no DELETE
NoDeleteOnChange ==
    Changing => \A j \in 1..Len(dlog) : dlog[j].op # "DELETE"

\* an API leaves the gateway only by the DELETE of a reaper cycle that found
\* it in the gateway's list and not among the expected names
OnlyReaped ==
    \A n \in DOMAIN kong \ DOMAIN kong' :
        /\ rpc = "delDelete" /\ rname = n
        /\ n \notin ringmap
        /\ \E api \in rapis : api.name = n

\* a cycle that began after the update, and in which every call succeeded,
\* has left none of the dropped names
ReapedByCleanCycle ==
    (CycleCompleted /\ AllOk(rlog) /\ ~rdirty) =>
        \A n \in DroppedNames : n \notin DOMAIN kong

\* C27: when an update changes an ingress so that a pair's qualified name
\* changes, or makes the ingress ineligible, the add/update handler issues no
\* DELETE for the API under the old name; that API stays until a reaper
\* cycle finds it orphaned, and the next successful reaper cycle deletes it
\* provided no other eligible ingress derives the same name.
C27_OldNameLeftToTheReaper ==
    /\ []NoDeleteOnChange
    /\ [][OnlyReaped]_vars
    /\ []ReapedByCleanCycle

\* the update was handled, the API of the dropped name stayed, and a later
\* cycle deleted it
C27_Witness ==
    /\ changes = 1 /\ queue = <<>> /\ dpc = "idle"
    /\ CycleCompleted /\ AllOk(rlog) /\ ~rdirty
    /\ \E j \in 1..Len(rlog) :
          rlog[j].op = "DELETE" /\ rlog[j].path \in PairNames(WebA)
    /\ DroppedNames # {}

----------------------------------------------------------------------------
(* Properties of reconcileCertificate (SpecT). *)

\* the certificate calls the running handler has issued for host h in the
\* turn of its k-th pair; no host occurs twice in the TLS entries of the
\* ingresses of SpecT
HostCalls(k, h) == SelectSeq(clog, LAMBDA e : e.pair = k /\ e.host = h)

\* the turns of the handler's loop over the pairs, and the hosts
Turns == {1, 2}
TLSHosts == {"a", "b"}

\* what is left of a string when the newlines at its ends are taken off: a
\* stretch of it that neither begins nor ends with a newline, with nothing
\* but newlines before and after it
Cores(s) ==
    {SubSeq(s, i, j) : <<i, j>> \in
        {x \in (1..Len(s) + 1) \X (0..Len(s)) :
            /\ x[1] <= x[2] + 1
            /\ \A k \in 1..Len(s) : (k < x[1] \/ k > x[2]) => s[k] = "\n"
            /\ x[1] <= x[2] => (s[x[1]] # "\n" /\ s[x[2]] # "\n")}}

SameModuloNewlines(s, t) == Cores(s) \cap Cores(t) # {}

\* the loop is through with host h
HostDone(k, h) ==
    /\ HostCalls(k, h) # <<>>
    /\ ~(/\ dpc = "tls" /\ PairIndex = k
         /\ Head(chosts).host = h /\ cpc \in {"post", "patch"})

\* C28: certificate reconcile compares the gateway certificate's cert and key
\* with the secret's tls.crt and tls.key after trimming leading and trailing
\* newlines: when both are equal modulo such newlines no certificate write
\* is issued, and when either differs exactly one certificate PATCH carrying
\* the secret's cert and key is issued for that host.
C28_PatchIffDiffersModuloNewlines ==
    \A k \in Turns, h \in TLSHosts :
        LET cs == HostCalls(k, h)
        IN  (cs # <<>> /\ cs[1].op = "GET" /\ cs[1].result = "ok") =>
               IF /\ SameModuloNewlines(cs[1].reply.cert, secret.crt)
                  /\ SameModuloNewlines(cs[1].reply.key, secret.key)
               THEN Len(cs) = 1
               ELSE /\ Len(cs) <= 2
                    /\ HostDone(k, h) => Len(cs) = 2
                    /\ Len(cs) = 2 =>
                          /\ cs[2].op = "PATCH"
                          /\ cs[2].id = cs[1].reply.id
                          /\ cs[2].body = [cert |-> secret.crt,
                                           key |-> secret.key]

\* a certificate that differs from the secret in newlines at its ends only
\* drew no write, and the certificate of the next host was patched
C28_Witness ==
    /\ dpc = "done" /\ Len(clog) = 3
    /\ clog[1].op = "GET" /\ clog[1].host = "a" /\ clog[1].result = "ok"
    /\ clog[1].reply.cert # secret.crt /\ clog[1].reply.key # secret.key
    /\ clog[2].op = "GET" /\ clog[2].host = "b" /\ clog[2].result = "ok"
    /\ clog[3].op = "PATCH" /\ clog[3].result = "ok"
    /\ certs["b"].cert = secret.crt /\ certs["a"].cert # secret.crt

\* C34: certificate reconcile follows the GET-then-create-or-patch structure
\* of API reconcile: a certificate POST is issued only when the gateway GET
\* for that host reports not-found; when that GET fails for another reason
\* (5xx or network error) no certificate write is issued.
C34_AsStated ==
    \A k \in Turns, h \in TLSHosts :
        LET cs == HostCalls(k, h)
        IN  /\ \A j \in 1..Len(cs) :
                  cs[j].op = "POST" =>
                      j = 2 /\ cs[1].op = "GET" /\ cs[1].result = "404"
            /\ (cs # <<>> /\ cs[1].result = "error") => Len(cs) = 1

\* what the code keeps instead: a POST follows the GET of its host whenever
\* that GET returned an error, whichever error, and only then
C34_PostAfterAnyGetError ==
    \A k \in Turns, h \in TLSHosts :
        LET cs == HostCalls(k, h)
        IN  /\ \A j \in 1..Len(cs) :
                  cs[j].op = "POST" =>
                      j = 2 /\ cs[1].op = "GET" /\ cs[1].result # "ok"
            /\ (HostDone(k, h) /\ cs[1].result # "ok") =>
                  Len(cs) = 2 /\ cs[2].op = "POST"

----------------------------------------------------------------------------
(* Properties of the reaper next to the dispatcher (SpecX). *)

\* the reaper issues its DELETE
ReaperDeletes == rpc = "delDelete" /\ rpc' # rpc

\* the reaper reads the cluster's ingress list
ReaperLists == rpc = "listIngresses" /\ rpc' # rpc /\ rerr' = None

\* the names the cycle may still delete
Doomed(todo, name) == {api.name : api \in todo} \cup ({name} \ {None})

\* C29: under every interleaving of the event dispatcher and the reaper,
\* the reaper never issues a DELETE for a gateway API whose name is, at the
\* moment of that DELETE, derived from an eligible ingress present in the
\* cluster.
C29_AsStated ==
    [][ReaperDeletes => rname \notin EligibleNames(cluster)]_vars

\* C29, amended: the reaper never issues a DELETE for a gateway API whose
\* name was, at the moment the cycle read the cluster's ingress list, derived
\* from an eligible ingress present in the cluster: the names it may delete
\* are fixed when the list is read, to names no eligible ingress of that list
\* derives, and from then on to the end of the cycle that set only shrinks,
\* whatever is created in the cluster meanwhile.
C29_NoDeleteOfListedNames ==
    /\ [][ReaperLists =>
             Doomed(rtodo', rname') \cap EligibleNames(cluster) = {}]_vars
    /\ [][(rpc \in {"delGet", "delDelete"}) =>
             Doomed(rtodo', rname') \subseteq Doomed(rtodo, rname)]_vars
    /\ [][ReaperDeletes => rname \in Doomed(rtodo, rname)]_vars

\* the reaper has deleted the API of an ingress that was created after the
\* cycle read the ingress list
C29_Witness ==
    /\ rlog # <<>>
    /\ rlog[Len(rlog)].op = "DELETE" /\ rlog[Len(rlog)].result = "ok"
    /\ rlog[Len(rlog)].path \in EligibleNames(cluster)
    /\ rlog[Len(rlog)].path \notin ringmap

----------------------------------------------------------------------------
(* Properties of two concurrent reconciles of one pair (SpecC). *)

\* both calls have returned
BothReturned == dpc = "done" /\ ppc = "done"

\* the record a reconcile leaves when it patches `rec` on what it read in
\* `snap`, from the k-th comparison on, every call answered
RECURSIVE PatchedFrom(_, _, _)
PatchedFrom(rec, snap, k) ==
    LET step == NextPatch(snap, SharedPair, SharedNamespace, k)
    IN  IF step \in {"return", "panic"} THEN rec
        ELSE PatchedFrom(PatchedApi(rec, PatchBody(step, snap, SharedPair,
                                                   SharedNamespace)),
                         snap, FieldIndex(step) + 1)

\* the record one reconcile leaves, from the record it finds (Nil for none)
Reconciled(api) ==
    IF api = Nil
    THEN CreatedApi(apiRequestFromIngress(SharedPair.rule, SharedPair.path,
                                          SharedNamespace))
    ELSE PatchedFrom(api, api, 1)

\* the record two reconciles leave when one runs after the other
OneAfterTheOther(api) == Reconciled(Reconciled(api))

\* the gateway holds one record, under the pair's name, and it is the one
\* two reconciles in a row would have left from what the call's GET found
AsInSequence(log) ==
    /\ DOMAIN kong = {SharedName}
    /\ kong[SharedName] = OneAfterTheOther(log[1].reply)

\* C26: two reconciles of the same desired record, interleaved arbitrarily
\* call by call, leave the gateway with a single record under the name that
\* satisfies I1, the state that running them one after the other leaves.
C26_AsStated ==
    BothReturned =>
        /\ AsInSequence(dlog) /\ AsInSequence(plog)
        /\ SatisfiesI1(kong[SharedName], 1)

\* the same without I1 for the records whose uris list holds more than one
\* element: the interleaved calls leave what the calls in sequence leave,
\* and that record satisfies I1 when the first GET found no record or one
\* with at most one uri
C26_ExceptExtraUris ==
    BothReturned =>
        /\ AsInSequence(dlog) /\ AsInSequence(plog)
        /\ (dlog[1].result = "404" \/ Len(dlog[1].reply.uris.elems) <= 1) =>
              SatisfiesI1(kong[SharedName], 1)

\* both calls found no record, both posted, and one POST was refused
C26_BothPosted ==
    /\ BothReturned
    /\ Len(dlog) = 2 /\ Len(plog) = 2
    /\ dlog[2].op = "POST" /\ plog[2].op = "POST"
    /\ {dlog[2].result, plog[2].result} = {"ok", "error"}

----------------------------------------------------------------------------
(* Properties of the delete handler among ingresses that share a name     *)
(* (SpecS). *)

\* the delete handler has processed the event
DeleteProcessed == Deleting /\ dpc = "done"

\* C30: after a delete event for ingress A has been processed, every gateway
\* API whose qualified name is still derived from a (rule, path) pair of
\* another eligible ingress that remains in the cluster is still present:
\* deleting one ingress never removes a gateway API that another existing
\* ingress owns.
C30_AsStated ==
    DeleteProcessed =>
        \A n \in EligibleNames(cluster) : n \in DOMAIN kong

\* the same for the names the deleted ingress does not derive: the delete
\* handler leaves the APIs under every other name alone
C30_OtherNamesKept ==
    DeleteProcessed =>
        \A n \in EligibleNames(cluster) \ PairNames(dev.obj) : n \in DOMAIN kong

----------------------------------------------------------------------------
(* Properties of the delete handler and the reaper on one name (SpecK). *)

\* the delete handler's deleteKongAPI for the name has returned
HandlerDeleted(n) ==
    Deleting /\ \E k \in 1..Len(dres) : NameOf(k) = n

\* what it returned
HandlerResults(n) == {dres[k] : k \in {j \in 1..Len(dres) : NameOf(j) = n}}

\* the reaper's deleteKongAPI for the name has been called and has returned
ReaperDeleted(n) ==
    /\ \E j \in 1..Len(rlog) : rlog[j].op = "GET" /\ rlog[j].path = n
    /\ ~(rpc = "delDelete" /\ rname = n)

\* it returned nil: its DELETE succeeded
ReaperSucceeded(n) ==
    \E j \in 1..Len(rlog) :
        rlog[j].op = "DELETE" /\ rlog[j].path = n /\ rlog[j].result = "ok"

\* both have deleted the name: it is gone, and one of the two calls
\* returned nil, the other an error
OneSucceeds ==
    \A n \in PairNames(WebA) :
        (HandlerDeleted(n) /\ ReaperDeleted(n)) =>
            /\ n \notin DOMAIN kong
            /\ HandlerResults(n) = {"ok"} <=> ~ReaperSucceeded(n)
            /\ HandlerResults(n) = {"error"} <=> ReaperSucceeded(n)

\* the API of the other ingress is as it was
OthersUntouched ==
    \A n \in PairNames(Bab) : n \in DOMAIN kong /\ kong[n] = CreatedFor(Bab)[n]

\* the errors are logged and the loops go on: the handler goes through
\* every pair of the ingress, the reaper's cycle through every orphan of its
\* list, and reapOrphanedApis returns nil
LoopsGoOn ==
    /\ Alive /\ rpc # "exited"
    /\ (Deleting /\ dpc = "done") => Len(dres) = Len(Pairs(dev.obj))
    /\ (rpc = "sleep" /\ Len(rlog) >= 2 /\ rlog[2] = ListCall("ok")) =>
          /\ rerr = None
          /\ \A api \in rapis : api.name \notin ringmap =>
                \E j \in 1..Len(rlog) :
                    rlog[j].op = "GET" /\ rlog[j].path = api.name

\* C33: when the delete handler and the reaper concurrently delete the same
\* gateway API name, under every interleaving of their GET and DELETE calls
\* the API ends absent, at most one of them observes success while the other
\* gets an error value that is only logged, no other API is affected, and
\* neither loop terminates.
C33_ConcurrentDeletes == OneSucceeds /\ OthersUntouched /\ LoopsGoOn

\* both read the API, the reaper deleted it, and the handler's DELETE was
\* answered not-found; both went on to the other name
C33_Witness ==
    /\ Deleting /\ dpc = "done" /\ rpc = "sleep"
    /\ \E n \in PairNames(WebA) :
          /\ ReaperSucceeded(n) /\ HandlerResults(n) = {"error"}
          /\ \E j \in 1..Len(dlog) :
                dlog[j].op = "DELETE" /\ dlog[j].path = n /\ dlog[j].result = "404"
    /\ DOMAIN kong = PairNames(Bab)

====
